---- MODULE Spec2Model ----
(***************************************************************************)
(* A model of the flux_ecs crate: the type-erased component column, the    *)
(* archetype table and its manager (archetype.rs), the archetype graph and *)
(* store (archetype_graph.rs, archetypes.rs), World::spawn (world.rs), the *)
(* query iterator (query.rs) and the schedule / command machinery          *)
(* (system/*.rs, commands/mod.rs); and of the flux_memory crate: the       *)
(* region guards (region.rs) and the counting allocator                    *)
(* (tracking_allocator.rs).  SpecWorld puts the schedules                  *)
(* (schedule/mod.rs), the resource map (resource.rs) and the command       *)
(* queue of one World together.                                            *)
(*                                                                         *)
(* The module holds several specifications over one set of variables; a    *)
(* specification leaves the variables of the other subsystems unchanged.   *)
(***************************************************************************)
EXTENDS Integers, Sequences, FiniteSets, TLC

VARIABLES
    col,        \* SpecColumn: the ComponentColumn under test
    col_prev,   \* SpecColumn: the column before the last operation
    col_op,     \* SpecColumn: the last operation, its argument and outcome
    next_index,         \* EntityManager.next_index
    archetypes,         \* ArchetypeManager.archetypes: ComponentSet -> Archetype
    entity_locations,   \* ArchetypeManager.entity_locations: Entity -> (set, row)
    mgr_prev,           \* SpecMgr: archetypes and entity_locations before the last call
    mgr_op,             \* SpecMgr: the last call and its arguments
    debug_assertions,   \* SpecMgr: whether the build has cfg(debug_assertions), the dev profile
    infos,              \* World.component_registry: the registered types, in id order
    store,              \* World.archetypes: [graph, storage]
    recorded,           \* the EntityLocation records the World keeps: Entity -> location
    store_prev,         \* the store before the last call
    store_op,           \* the last call on the store: [op, args, ret, panicked]
    goc_kept,           \* SpecGraph: an earlier get_or_create_archetype call, kept
    moves,              \* SpecStore: the move_entity calls made so far
    q_types,            \* the component types Q of the system's Query<Q> names
    q_mut,              \* whether each element of Q is &mut T (TRUE) or &T (FALSE)
    q_state,            \* FunctionSystem.state of that system: <<>> or <<QueryState>>
    technique,          \* Systems.command_flush_technique
    systems,            \* Systems.systems: the function systems, in registration order
    sys_state,          \* FunctionSystem.state of each system: <<>> or <<CommandsState>>
    command_queue,      \* World.command_queue.commands
    executed,           \* the commands executed against the world, in order
    pc,                 \* Systems::run: <<"run", index of the next system>>, <<"idle">>, <<"returned">>, <<"panicked">>; <<"flushed">> after a flush_commands from outside a run
    trace,              \* the events of the current Systems::run, in order
    runs,               \* the Systems::run calls started so far
    em,                 \* SpecEntity: the EntityManager under test, a u32 counter
    em_first,           \* SpecEntity: next_index when observation begins
    em_returned,        \* SpecEntity: the indices spawn returned since then, in order
    em_op,              \* SpecEntity: the last EntityManager call and its outcome
    registry,           \* SpecRegistry: the ComponentRegistry [type_to_id, infos]
    registry_prev,      \* SpecRegistry: the registry before the last call
    registry_op,        \* SpecRegistry: the last call, its type and the id returned
    resources,          \* SpecParam: World.resources.data, TypeId -> value
    fsys,               \* SpecParam: the function system [params, fails]
    fsys_state,         \* SpecParam: FunctionSystem.state, <<>> or <<P::State>>
    calls,              \* SpecParam: the protocol steps executed so far, in order
    fsys_op,            \* SpecParam: the last call on the system and its outcome
    current_region,     \* CURRENT_REGION of the thread (region.rs)
    guards,             \* the RegionGuards alive, in creation order: [region, previous]
    guards_lifo,        \* SpecMemory: every drop so far took the youngest guard alive
    allocator,          \* ALLOCATOR: [allocations, allocated_bytes], Region -> usize
    blocks,             \* SpecMemory: the sizes of the blocks allocated and not yet freed
    mem_prev,           \* SpecMemory: current_region and allocator before the last call
    mem_op,             \* SpecMemory: the last call and its arguments
    schedule_map,       \* World.schedules.schedule_map: ScheduleLabel -> Schedule
    registrations,      \* SpecWorld: <<label, function name>> of the systems registered under a label and held by its schedule, in registration order
    taken,              \* SpecWorld: the Systems the caller of take_systems holds, <<>> or <<Systems>>
    last_inserted,      \* SpecWorld: the instance last inserted for each resource type and not removed since, as it is now
    world_prev,         \* SpecWorld: resources, command queue and schedule_map before the last call
    world_op,           \* SpecWorld: the last call, its arguments and its outcome
    mcol,               \* SpecColumnMemory: the ComponentColumn under test
    mcol_size,          \* SpecColumnMemory: ComponentColumn.size, the element size in bytes
    mcol_op             \* SpecColumnMemory: the last call, the allocator calls it made, the bytes it copied

col_vars == <<col, col_prev, col_op>>
mgr_vars == <<archetypes, entity_locations, mgr_prev, mgr_op, debug_assertions>>
store_vars == <<infos, store, recorded, store_prev, store_op, goc_kept, moves>>
query_vars == <<q_types, q_mut, q_state>>
sched_vars == <<technique, systems, sys_state, command_queue, executed, pc,
                trace, runs>>
entity_vars == <<em, em_first, em_returned, em_op>>
registry_vars == <<registry, registry_prev, registry_op>>
param_vars == <<resources, fsys, fsys_state, calls, fsys_op>>
memory_vars == <<current_region, guards, guards_lifo, allocator, blocks,
                 mem_prev, mem_op>>
world_vars == <<schedule_map, registrations, taken, last_inserted, world_prev,
                world_op>>
mcol_vars == <<mcol, mcol_size, mcol_op>>

vars == <<col, col_prev, col_op,
          next_index, archetypes, entity_locations, mgr_prev, mgr_op,
          debug_assertions,
          infos, store, recorded, store_prev, store_op, goc_kept, moves,
          q_types, q_mut, q_state,
          technique, systems, sys_state, command_queue, executed, pc,
          trace, runs,
          em, em_first, em_returned, em_op,
          registry, registry_prev, registry_op,
          resources, fsys, fsys_state, calls, fsys_op,
          current_region, guards, guards_lifo, allocator, blocks,
          mem_prev, mem_op,
          schedule_map, registrations, taken, last_inserted, world_prev, world_op,
          mcol, mcol_size, mcol_op>>

\* What an action of one subsystem leaves alone.
rest_vars == <<entity_vars, registry_vars, param_vars, memory_vars, world_vars,
               mcol_vars>>
not_col == <<next_index, mgr_vars, store_vars, query_vars, sched_vars, rest_vars>>
not_mgr == <<col_vars, store_vars, query_vars, sched_vars, rest_vars>>
not_store == <<col_vars, mgr_vars, query_vars, sched_vars, rest_vars>>
not_query == <<col_vars, mgr_vars, sched_vars, rest_vars>>
not_sched == <<col_vars, next_index, mgr_vars, store_vars, query_vars, rest_vars>>
not_entity == <<col_vars, next_index, mgr_vars, store_vars, query_vars, sched_vars,
                registry_vars, param_vars, memory_vars, world_vars, mcol_vars>>
not_registry == <<col_vars, next_index, mgr_vars, store_vars, query_vars,
                  sched_vars, entity_vars, param_vars, memory_vars, world_vars,
                  mcol_vars>>
not_param == <<col_vars, next_index, mgr_vars, store_vars, query_vars,
               technique, systems, sys_state, executed, pc, trace, runs,
               entity_vars, registry_vars, memory_vars, world_vars, mcol_vars>>
not_memory == <<col_vars, next_index, mgr_vars, store_vars, query_vars,
                sched_vars, entity_vars, registry_vars, param_vars, world_vars,
                mcol_vars>>
not_world == <<col_vars, next_index, mgr_vars, store_vars, query_vars,
               technique, systems, sys_state, executed, pc, trace, runs,
               entity_vars, registry_vars, fsys, fsys_state, calls, fsys_op,
               memory_vars, mcol_vars>>
not_mcol == <<col_vars, next_index, mgr_vars, store_vars, query_vars,
              sched_vars, entity_vars, registry_vars, param_vars, memory_vars,
              world_vars>>

(***************************************************************************)
(* Bounds of the model.                                                    *)
(***************************************************************************)
NumValues == 2      \* distinct byte patterns pushed to the column under test
MaxInitCap == 2     \* largest initial capacity given to with_capacity
MaxColLen == 4      \* cap on the logical length of the column under test
NumComponents == 2  \* component types the application registers
MaxEntities == 3    \* cap on the number of EntityManager::spawn calls
EntityWindow == 12  \* SpecEntity: how far below u32::MAX next_index may start
MaxSpawns == 8      \* SpecEntity: cap on the spawn calls observed
MaxBundleLen == 2   \* largest tuple a spawned bundle is
MaxSigLen == 2      \* cap on the length of a signature the graph is asked for
MaxArchetypes == 4  \* SpecStore: cap on the number of archetypes of the graph
MaxGraphSize == 5   \* SpecGraph: cap on the number of archetypes of the graph
MaxMoves == 2       \* cap on the move_entity calls of a run
MaxSystems == 2     \* SpecSched: most systems a schedule holds
MaxPushes == 2      \* SpecSched: most commands a system body pushes in a run
MaxRuns == 2        \* SpecSched: cap on the Systems::run calls
MaxQueued == 1      \* SpecSched: cap on the commands queued from outside a run
MaxChain == 1       \* SpecSched: most commands the execute of a queued command chains
NumRegistryTypes == 4   \* SpecRegistry: component types offered to register
NumResources == 2   \* SpecParam: resource types of the application
MaxCalls == 3       \* SpecParam: cap on the initialize() and run() calls
MaxParamLen == 2    \* SpecParam: largest parameter tuple of the system
MaxGuards == 2      \* SpecMemory: most RegionGuards alive at a time
MaxBlocks == 2      \* SpecMemory: most blocks allocated and not yet freed
MaxLayoutSize == 2  \* SpecMemory: largest Layout::size() asked of the allocator
MaxMemCalls == 5    \* SpecMemory: cap on the calls of a run
MaxScheduled == 2   \* SpecWorld: most systems added to the schedules
MaxWorldParams == 1 \* SpecWorld: largest parameter tuple of a scheduled system
MaxWorldCalls == 4  \* SpecWorld: cap on the calls of a run
MaxWorldQueued == 2 \* SpecWorld: cap on the commands queued from outside a run
MaxElementSize == 1 \* SpecColumnMemory: largest element size of the column, in bytes

\* The byte patterns pushed to the column under test.
Values == 1..NumValues

\* The mark of a cell of memory that alloc/realloc returned and that was
\* never written; it is no byte pattern.
Uninit == -1

\* What a read of never-written memory can give: the build returns whatever
\* the allocator left there, a pattern written earlier (to a column or as
\* the bytes of a bundle) or any other pattern (0 stands for every pattern
\* never written).
Indeterminate ==
    0..(IF NumValues > MaxEntities * MaxBundleLen
        THEN NumValues ELSE MaxEntities * MaxBundleLen)

(***************************************************************************)
(* ComponentColumn (archetype.rs).  The buffer is `capacity` elements      *)
(* long; `data` holds the elements written so far, a prefix of the buffer  *)
(* (push writes at index `length`, swap_remove below it), and every        *)
(* element past Len(data) is uninitialised.  Indices are 0-based as in the *)
(* code.                                                                   *)
(***************************************************************************)
with_capacity(capacity) ==
    [capacity |-> capacity, length |-> 0, data |-> <<>>]

\* The bytes of the cell at buffer index `index`, as copy_nonoverlapping
\* moves them: Uninit for a cell never written.
bytes_at(c, index) ==
    IF index < Len(c.data) THEN c.data[index + 1] ELSE Uninit

\* ptr_at: assert!(index < self.capacity); TRUE when the assertion passes.
ptr_at_ok(c, index) == index < c.capacity

\* ptr_at followed by a read through the pointer: the set of the values
\* the read can give.  No value when the assertion of ptr_at fails; the
\* bytes written for a written cell; anything for a cell never written
\* (an uninitialised read).
read_at(c, index) ==
    IF ~ptr_at_ok(c, index) THEN {}
    ELSE IF bytes_at(c, index) = Uninit THEN Indeterminate
    ELSE {bytes_at(c, index)}

\* A write of one element at buffer index `index` (index <= Len(data)).
write_at(c, index, value) ==
    IF index < Len(c.data)
    THEN [c EXCEPT !.data = [@ EXCEPT ![index + 1] = value]]
    ELSE [c EXCEPT !.data = Append(@, value)]

\* A plausible slip: growth through a fresh allocation, the old bytes lost.
grow_fresh(c) ==
    [c EXCEPT !.capacity = c.capacity * 2,
              !.data = [i \in 1..Len(c.data) |-> Uninit]]

\* grow: realloc to twice the capacity; the old bytes are kept.
grow(c) == [c EXCEPT !.capacity = c.capacity * 2]

\* push: grow when full, copy the element to index length, length += 1.
push(c, value) ==
    LET g == IF c.length = c.capacity THEN grow(c) ELSE c
    IN  [write_at(g, g.length, value) EXCEPT !.length = g.length + 1]

\* swap_remove's assertion: assert!(index < self.length).
swap_remove_ok(c, index) == index < c.length

\* A plausible slip: the removed row is overwritten by the first row.
swap_remove_copy_first(c, index) ==
    LET last_index == c.length - 1
        moved == IF index # last_index
                 THEN write_at(c, index, bytes_at(c, 0))
                 ELSE c
    IN  [moved EXCEPT !.length = c.length - 1]

\* swap_remove: copy the last row over `index` unless it is the last row,
\* then length -= 1.
swap_remove(c, index) ==
    LET last_index == c.length - 1
        moved == IF index # last_index
                 THEN write_at(c, index, bytes_at(c, last_index))
                 ELSE c
    IN  [moved EXCEPT !.length = c.length - 1]


(***************************************************************************)
(* The column and the allocator.  An element of `size` bytes is a sequence *)
(* of `size` byte values; a call of the global allocator is [call, size],  *)
(* size being the bytes of the layout asked for.                           *)
(***************************************************************************)
\* with_capacity: alloc::alloc(Layout::from_size_align(size * capacity, align)).
with_capacity_requests(size, capacity) ==
    <<[call |-> "alloc", size |-> size * capacity]>>

\* grow: alloc::realloc(ptr, old_layout, size * new_capacity).
grow_requests(c, size) ==
    <<[call |-> "realloc", size |-> size * (c.capacity * 2)]>>

\* push: grow when full.
push_requests(c, size) ==
    IF c.length = c.capacity THEN grow_requests(c, size) ELSE <<>>

\* push: copy_nonoverlapping(value, ptr_at(length), self.size).
push_copied(size) == size

\* swap_remove: copy_nonoverlapping(src, dest, self.size) unless the row is
\* the last one.
swap_remove_copied(c, index, size) ==
    IF index # c.length - 1 THEN size ELSE 0

\* What alloc and realloc can return for the calls made.  A request of zero
\* bytes breaks the contract of GlobalAlloc (undefined behaviour): the
\* allocator may hand out a block or return null, and on null the column
\* calls handle_alloc_error, which aborts.  TRUE is the abort.
requests_abort(requests) ==
    IF \E j \in 1..Len(requests) : requests[j].size = 0
    THEN {FALSE, TRUE}
    ELSE {FALSE}
(***************************************************************************)
(* Component ids, entities and bundles.                                    *)
(***************************************************************************)
ComponentIds == 0..(NumComponents - 1)

\* The ascending sequence of the members of a set of numbers.
RECURSIVE SetToSeq(_)
SetToSeq(S) ==
    IF S = {} THEN <<>>
    ELSE LET m == CHOOSE x \in S : \A y \in S : x <= y
         IN  <<m>> \o SetToSeq(S \ {m})

Range(f) == {f[i] : i \in DOMAIN f}

\* The bytes of the j-th component of the bundle spawned as `entity`: no
\* two components of the run hold the same bytes, and none looks like
\* uninitialised memory.
bundle_bytes(entity, j) == entity * MaxBundleLen + j

\* The (ComponentId, bytes) pairs of a bundle whose tuple names `ids`.
bundle_of(entity, ids) ==
    [j \in 1..Len(ids) |-> <<ids[j], bundle_bytes(entity, j)>>]

\* The tuples of component ids a bundle type can name, in declaration
\* order; nothing stops a tuple naming one type twice.
BundleShapes == UNION {[1..n -> ComponentIds] : n \in 1..MaxBundleLen}

\* Entity::index values handed out within the bound.
Entities == 0..(MaxEntities - 1)

\* EntityManager::new: next_index starts at 0.
EntityManager_new == 0

\* EntityManager::spawn: the handle returned (next_index += 1 is the
\* caller's primed variable).
EntityManager_spawn(n) == n

(***************************************************************************)
(* The u32 counter at full width.  A u32 is held as two 16-bit limbs       *)
(* <<high, low>> standing for high * 2^16 + low, since the values near     *)
(* u32::MAX exceed the integers the model checker computes with.  The      *)
(* specifications above cap the number of spawns at MaxEntities and keep   *)
(* next_index as a plain number; SpecEntity uses the limbs.                *)
(***************************************************************************)
LimbMax == 65535

U32 == (0..LimbMax) \X (0..LimbMax)

U32_ZERO == <<0, 0>>

\* u32::MAX
U32_MAX == <<LimbMax, LimbMax>>

\* a < b on u32
U32_less(a, b) == a[1] < b[1] \/ (a[1] = b[1] /\ a[2] < b[2])

\* a + 1 modulo 2^32
U32_wrapping_inc(a) ==
    IF a[2] < LimbMax
    THEN <<a[1], a[2] + 1>>
    ELSE <<(a[1] + 1) % (LimbMax + 1), 0>>

\* EntityManager::new with the counter at full width.
EntityManager_new_u32 == [next_index |-> U32_ZERO]

\* self.next_index += 1 on a u32.  Below u32::MAX it adds one.  At
\* u32::MAX the outcome depends on the build: with overflow checks (the
\* dev profile) the addition panics, without them (the release profile) it
\* wraps to 0.
EntityManager_increment(n, overflow_checks) ==
    IF n # U32_MAX
    THEN [next_index |-> U32_wrapping_inc(n), panicked |-> FALSE]
    ELSE IF overflow_checks
         THEN [next_index |-> n, panicked |-> TRUE]
         ELSE [next_index |-> U32_wrapping_inc(n), panicked |-> FALSE]

(***************************************************************************)
(* Archetype and ArchetypeManager of archetype.rs.  A ComponentSet is the  *)
(* set of the ids whose bit is set.  Rows are 0-based; entities[r + 1] is  *)
(* the entity of row r.                                                    *)
(***************************************************************************)
InitialCapacity == 64

\* Archetype::new: one column per type, in the order of `types`.
Archetype_new(types, initial_capacity) ==
    [types |-> types,
     columns |-> [j \in 1..Len(types) |-> with_capacity(initial_capacity)],
     entities |-> <<>>]

\* size_of_val(ptr) and align_of_val(&ptr) of Archetype::insert: ptr is a
\* reference to a *const u8 and &ptr a reference to that reference, so both
\* are the size and the alignment of a pointer.
PointerSize == 8

PointerAlign == 8

\* component_registry.get_info(i): the ComponentInfo of a registered
\* component.  The type of id 0 has the size and the alignment of a
\* pointer, the others are 4-byte values.
component_info(id) ==
    IF id = 0
    THEN [id |-> id, size |-> PointerSize, align |-> PointerAlign]
    ELSE [id |-> id, size |-> 4, align |-> 4]

\* The #[cfg(debug_assertions)] block of Archetype::insert for one pair:
\* "" when it passes, else the message of the panic.
Archetype_insert_debug(a, component_id) ==
    IF \A j \in 1..Len(a.types) : a.types[j].id # component_id
    THEN "ComponentId not found in types"
    ELSE LET type_info ==
                a.types[CHOOSE j \in 1..Len(a.types) :
                            /\ a.types[j].id = component_id
                            /\ \A k \in 1..(j - 1) :
                                  a.types[k].id # component_id]
         IN  IF type_info.size # PointerSize
             THEN "Size mismatch for the component"
             ELSE IF type_info.align # PointerAlign
             THEN "Alignment mismatch for the component"
             ELSE ""

\* The first pair (1-based) at which Archetype::insert panics inside its
\* loop, 0 when none does: only a build with debug assertions checks.
Archetype_insert_stop(a, components, debug) ==
    LET failing == {j \in 1..Len(components) :
                        debug /\ Archetype_insert_debug(a, components[j][1]) # ""}
    IN  IF failing = {} THEN 0
        ELSE CHOOSE j \in failing : \A k \in failing : j <= k

\* Archetype::insert returns: the assertion on the component count passes
\* and no pair fails the debug assertions.
Archetype_insert_ok(a, components, debug) ==
    /\ Len(components) = Len(a.types)
    /\ Archetype_insert_stop(a, components, debug) = 0

\* What column.push(*ptr) can copy into a cell of `size` bytes when ptr
\* points at a component of `component_size` bytes holding `value`:
\* copy_nonoverlapping copies `size` bytes whatever the component's size.
\* A component at least as large gives its leading bytes, the value.  A
\* smaller one is read past its end, an out-of-bounds read: the bytes
\* behind it are zero and the cell reads as the value, or they are
\* anything else and the cell holds a pattern that is no component of the
\* run (0).
push_copies(size, component_size, value) ==
    IF component_size < size THEN {value, 0} ELSE {value}

\* The values the pushes of Archetype::insert can copy, one per pair: the
\* j-th pair is pushed to the j-th column (the zip is positional).
Archetype_insert_copies(a, components) ==
    {copied \in [1..Len(components) ->
                    UNION {{components[j][2], 0} : j \in 1..Len(components)}] :
        \A j \in 1..Len(components) :
            copied[j] \in push_copies(a.types[j].size,
                                      component_info(components[j][1]).size,
                                      components[j][2])}

\* Archetype::insert past the count assertion, the set of the archetypes
\* it can leave: the j-th pair is pushed to the j-th column, then the
\* entity is appended.  A pair that fails the debug assertions panics
\* there: the columns of the pairs before it hold a new row, the others and
\* the entity list do not.
Archetype_insert(a, entity, components, debug) ==
    LET stop == Archetype_insert_stop(a, components, debug)
    IN  {[a EXCEPT
            !.columns = [j \in 1..Len(a.columns) |->
                            IF stop = 0 \/ j < stop
                            THEN push(a.columns[j], copied[j])
                            ELSE a.columns[j]],
            !.entities = IF stop = 0 THEN Append(a.entities, entity)
                         ELSE a.entities] :
         copied \in Archetype_insert_copies(a, components)}

\* Archetype::remove: the last row only shrinks every column; any other row
\* takes the last entity and swap-removes every column; entities.pop().
Archetype_remove(a, index) ==
    LET last_index == Len(a.entities) - 1
    IN  IF index = last_index
        THEN [a EXCEPT
                !.columns = [j \in 1..Len(a.columns) |->
                                [a.columns[j] EXCEPT !.length = @ - 1]],
                !.entities = SubSeq(a.entities, 1, last_index)]
        ELSE [a EXCEPT
                !.columns = [j \in 1..Len(a.columns) |->
                                swap_remove(a.columns[j], index)],
                !.entities = SubSeq([a.entities EXCEPT ![index + 1] =
                                        a.entities[last_index + 1]],
                                    1, last_index)]

\* Archetype::get_component_ptr followed by a read: the column is found by
\* the position of the id in `types`; the set of the values the read can
\* give.
Archetype_get_component(a, component_id, index) ==
    LET col_index == CHOOSE j \in 1..Len(a.types) : a.types[j].id = component_id
    IN  read_at(a.columns[col_index], index)

\* ArchetypeManager::get_or_create_archetype: a missing set gets a new
\* archetype whose types are the infos of the set's ids in ascending order.
ArchetypeManager_get_or_create_archetype(archs, component_set) ==
    IF component_set \in DOMAIN archs
    THEN archs
    ELSE archs @@ (component_set :>
                    Archetype_new([j \in 1..Cardinality(component_set) |->
                                    component_info(SetToSeq(component_set)[j])],
                                  InitialCapacity))

\* ArchetypeManager::insert, from the entry to the recording of the
\* location (archetype.len() - 1): the set of the outcomes, one for each
\* archetype Archetype::insert can leave.
ArchetypeManager_insert(archs, locs, entity, component_set, components, debug) ==
    LET created == ArchetypeManager_get_or_create_archetype(archs, component_set)
    IN  {[archetypes |-> [created EXCEPT ![component_set] = a],
          entity_locations |->
            [e \in DOMAIN locs \cup {entity} |->
                IF e = entity THEN <<component_set, Len(a.entities) - 1>>
                ELSE locs[e]]] :
         a \in Archetype_insert(created[component_set], entity, components,
                                debug)}

\* A plausible slip: the displaced entity's location is not patched.
ArchetypeManager_remove_entity_no_patch(archs, locs, entity) ==
    IF entity \notin DOMAIN locs
    THEN [archetypes |-> archs, entity_locations |-> locs]
    ELSE LET component_set == locs[entity][1]
             index == locs[entity][2]
             removed == [e \in DOMAIN locs \ {entity} |-> locs[e]]
         IN  [archetypes |->
                [archs EXCEPT ![component_set] =
                    Archetype_remove(archs[component_set], index)],
              entity_locations |-> removed]

\* ArchetypeManager::remove_entity: drop the location, remove the row, and
\* when a row still exists at `index` record its entity there.
ArchetypeManager_remove_entity(archs, locs, entity) ==
    IF entity \notin DOMAIN locs
    THEN [archetypes |-> archs, entity_locations |-> locs]
    ELSE LET component_set == locs[entity][1]
             index == locs[entity][2]
             removed == [e \in DOMAIN locs \ {entity} |-> locs[e]]
         IN  IF component_set \notin DOMAIN archs
             THEN [archetypes |-> archs, entity_locations |-> removed]
             ELSE LET a == Archetype_remove(archs[component_set], index)
                  IN  [archetypes |-> [archs EXCEPT ![component_set] = a],
                       entity_locations |->
                          IF index < Len(a.entities)
                          THEN LET moved_entity == a.entities[index + 1]
                               IN  [e \in DOMAIN removed \cup {moved_entity} |->
                                     IF e = moved_entity
                                     THEN <<component_set, index>>
                                     ELSE removed[e]]
                          ELSE removed]

(***************************************************************************)
(* ArchetypeGraph (archetype_graph.rs).  An ArchetypeId is its index; a    *)
(* signature is a sequence of ComponentIds; signatures[id + 1] is the      *)
(* signature of archetype id.                                              *)
(***************************************************************************)
\* HashMap::insert: the key's old value, if any, is replaced.
MapPut(f, k, v) == [x \in DOMAIN f \cup {k} |-> IF x = k THEN v ELSE f[x]]

\* slice::sort: ascending, equal elements kept.
RECURSIVE Sort(_)
Sort(s) ==
    IF Len(s) <= 1 THEN s
    ELSE LET rest == Sort(Tail(s))
             below == SelectSeq(rest, LAMBDA x : x < Head(s))
             above == SelectSeq(rest, LAMBDA x : x >= Head(s))
         IN  below \o <<Head(s)>> \o above

\* A plausible slip: the component list is used as given, unsorted.
SortSkipped(s) == s

\* The canonical form get_or_create_archetype gives a component list.
canonical(components) == Sort(components)

\* ArchetypeGraph::default().
ArchetypeGraph_default ==
    [by_signature |-> <<>>, signatures |-> <<>>,
     add_component_edges |-> <<>>, remove_component_edges |-> <<>>]

\* A plausible slip: the component at index i is not left out.
without_index_kept(signature, i) == signature

\* signature[..i] ++ signature[i + 1..], i 0-based.
without_index(signature, i) ==
    SubSeq(signature, 1, i) \o SubSeq(signature, i + 2, Len(signature))

\* get_or_create_archetype: [graph |-> the graph after the call, id |-> the
\* id returned].  A known signature returns its id; a new one takes the
\* next id and, for each of its components in turn, gets or creates the
\* archetype without that component and records both edges.
RECURSIVE get_or_create_archetype(_, _)
RECURSIVE get_or_create_edges(_, _, _, _)
get_or_create_archetype(g, components) ==
    LET signature == canonical(components)
    IN  IF signature \in DOMAIN g.by_signature
        THEN [graph |-> g, id |-> g.by_signature[signature]]
        ELSE LET new_id == Len(g.signatures)
                 g1 == [g EXCEPT
                          !.by_signature = MapPut(@, signature, new_id),
                          !.signatures = Append(@, signature)]
             IN  [graph |-> get_or_create_edges(g1, signature, new_id, 0),
                  id |-> new_id]

\* A plausible slip: the remove edge is written with the key and the value
\* of the add edge.
insert_edges_same_direction(smaller, component_id, new_id) ==
    [smaller.graph EXCEPT
        !.add_component_edges =
            MapPut(@, <<smaller.id, component_id>>, new_id),
        !.remove_component_edges =
            MapPut(@, <<smaller.id, component_id>>, new_id)]

\* The two inserts of the loop body: the add edge from the smaller
\* archetype (`smaller` is what get_or_create_archetype returned for it)
\* and the remove edge back.
insert_edges(smaller, component_id, new_id) ==
    [smaller.graph EXCEPT
        !.add_component_edges =
            MapPut(@, <<smaller.id, component_id>>, new_id),
        !.remove_component_edges =
            MapPut(@, <<new_id, component_id>>, smaller.id)]

\* A plausible slip: the edges are keyed by the component's position in the
\* signature, the other variable of the loop, instead of its id.
get_or_create_edges_by_position(g, signature, new_id, i) ==
    IF i >= Len(signature) THEN g
    ELSE get_or_create_edges(
            insert_edges(get_or_create_archetype(g, without_index(signature, i)),
                         i, new_id),
            signature, new_id, i + 1)

\* The loop of get_or_create_archetype from index i on.
get_or_create_edges(g, signature, new_id, i) ==
    IF i >= Len(signature) THEN g
    ELSE get_or_create_edges(
            insert_edges(get_or_create_archetype(g, without_index(signature, i)),
                         signature[i + 1], new_id),
            signature, new_id, i + 1)

\* get_add_edge: Some(id) as <<id>>, None as <<>>.
get_add_edge(g, start, component) ==
    IF <<start, component>> \in DOMAIN g.add_component_edges
    THEN <<g.add_component_edges[<<start, component>>]>>
    ELSE <<>>

\* get_signature: Some(signature) as <<signature>>, None as <<>>.
get_signature(g, id) ==
    IF id < Len(g.signatures) THEN <<g.signatures[id + 1]>> ELSE <<>>

(***************************************************************************)
(* ComponentRegistry (component.rs): `reg` (infos) lists the registered types in *)
(* id order, so the id of a type is its 0-based position.                  *)
(***************************************************************************)
\* The component types of the application, named by number.
ComponentTypes == 1..NumComponents

\* get_id: Some(id) as <<id>>, None as <<>>.
get_id(reg, type) ==
    IF type \in Range(reg)
    THEN <<(CHOOSE i \in 1..Len(reg) : reg[i] = type) - 1>>
    ELSE <<>>

\* register: a known type keeps its id; a new one takes infos.len().
register(reg, type) ==
    IF type \in Range(reg) THEN reg ELSE Append(reg, type)

\* ComponentBundle::register_components for a tuple of types: the registry
\* after registering each element in declaration order.
RECURSIVE register_components(_, _)
register_components(reg, types) ==
    IF types = <<>> THEN reg
    ELSE register_components(register(reg, Head(types)), Tail(types))

\* The ids register_components returns, in declaration order.
component_ids_of(reg, types) ==
    [j \in 1..Len(types) |-> get_id(reg, types[j])[1]]

(***************************************************************************)
(* Archetype as Archetypes, World and the query use it: new(id), add,      *)
(* add_moved_entity, remove, has_component, id, len, columns, entities.    *)
(* `columns` maps the ComponentIds that have a column to the column.       *)
(***************************************************************************)
\* ArchetypeId(usize::MAX), the id given to the slots resize_with fills in;
\* -1 stands for it: no archetype of the graph has that id.
PlaceholderId == -1

StoreArchetype_new(id) == [id |-> id, columns |-> <<>>, entities |-> <<>>]

has_component(a, component_id) == component_id \in DOMAIN a.columns

\* add: each (ComponentId, bytes) pair in turn is pushed to its column, a
\* column being created on first use; then the entity is appended.
RECURSIVE add_components(_, _)
add_components(columns, component_data) ==
    IF component_data = <<>> THEN columns
    ELSE LET component_id == Head(component_data)[1]
             column == IF component_id \in DOMAIN columns
                       THEN columns[component_id]
                       ELSE with_capacity(InitialCapacity)
         IN  add_components(
                MapPut(columns, component_id, push(column, Head(component_data)[2])),
                Tail(component_data))

StoreArchetype_add(a, entity, component_data) ==
    [archetype |-> [a EXCEPT
                      !.columns = add_components(a.columns, component_data),
                      !.entities = Append(a.entities, entity)],
     row |-> Len(a.entities)]

\* add_moved_entity reads the source row of every column both archetypes
\* have; a row outside the source column is a fatal assertion.
add_moved_entity_ok(dest, source, source_row) ==
    \A component_id \in DOMAIN dest.columns \cap DOMAIN source.columns :
        source_row < source.columns[component_id].length

\* add_moved_entity: every column of the destination gets a new row, a copy
\* of the source row where the source has the column and uninitialised
\* bytes where it has not; then the entity is appended.
StoreArchetype_add_moved_entity(dest, entity, source, source_row) ==
    [archetype |-> [dest EXCEPT
        !.columns = [component_id \in DOMAIN dest.columns |->
            IF component_id \in DOMAIN source.columns
            THEN push(dest.columns[component_id],
                      bytes_at(source.columns[component_id], source_row))
            ELSE push(dest.columns[component_id], Uninit)],
        !.entities = Append(dest.entities, entity)],
     row |-> Len(dest.entities)]

\* remove swap-removes the row from every column; a column shorter than the
\* row is a fatal assertion.
StoreArchetype_remove_ok(a, row) ==
    /\ row < Len(a.entities)
    /\ \A component_id \in DOMAIN a.columns :
          swap_remove_ok(a.columns[component_id], row)

\* remove: swap-remove from every column and from the entity list; returns
\* the removed entity and, as <<d>>, the entity moved into the row (<<>>
\* when the row was the last one).
StoreArchetype_remove(a, row) ==
    LET last == Len(a.entities) - 1
        entities == SubSeq([a.entities EXCEPT ![row + 1] = a.entities[last + 1]],
                           1, last)
    IN  [archetype |-> [a EXCEPT
            !.columns = [component_id \in DOMAIN a.columns |->
                            swap_remove(a.columns[component_id], row)],
            !.entities = entities],
         removed |-> a.entities[row + 1],
         moved |-> IF row < last THEN <<entities[row + 1]>> ELSE <<>>]

(***************************************************************************)
(* Archetypes (archetypes.rs): [graph, storage]; storage[id + 1] is the    *)
(* archetype stored under ArchetypeId id.                                  *)
(***************************************************************************)
Archetypes_new == [graph |-> ArchetypeGraph_default, storage |-> <<>>]

\* Vec::resize_with(new_len, || Archetype::new(ArchetypeId(usize::MAX))).
resize_with(storage, new_len) ==
    IF new_len <= Len(storage) THEN SubSeq(storage, 1, new_len)
    ELSE storage \o [j \in 1..(new_len - Len(storage)) |->
                        StoreArchetype_new(PlaceholderId)]

\* get_or_create_for_bundle, given the ids register_components returned:
\* the graph resolves the id; storage is extended, and the slot set, only
\* when the id lies at or past the end of storage.
get_or_create_for_bundle(a, component_ids) ==
    LET r == get_or_create_archetype(a.graph, component_ids)
        storage == IF r.id >= Len(a.storage)
                   THEN [resize_with(a.storage, r.id + 1)
                            EXCEPT ![r.id + 1] = StoreArchetype_new(r.id)]
                   ELSE a.storage
    IN  [archetypes |-> [graph |-> r.graph, storage |-> storage],
         id |-> r.id]

\* get_add_component_destination's expect on the start signature.
get_add_component_destination_ok(a, start_id, component_id) ==
    \/ get_add_edge(a.graph, start_id, component_id) # <<>>
    \/ get_signature(a.graph, start_id) # <<>>

\* A plausible slip: the new signature is started empty instead of from
\* the start archetype's.
get_add_component_destination_from_empty(a, start_id, component_id) ==
    IF get_add_edge(a.graph, start_id, component_id) # <<>>
    THEN [archetypes |-> a,
          id |-> get_add_edge(a.graph, start_id, component_id)[1]]
    ELSE LET new_signature == <<component_id>>
             r == get_or_create_archetype(a.graph, new_signature)
         IN  [archetypes |-> [a EXCEPT !.graph = r.graph], id |-> r.id]

\* get_add_component_destination: the cached edge, or the archetype of the
\* start signature with the component pushed at its end.
get_add_component_destination(a, start_id, component_id) ==
    IF get_add_edge(a.graph, start_id, component_id) # <<>>
    THEN [archetypes |-> a,
          id |-> get_add_edge(a.graph, start_id, component_id)[1]]
    ELSE LET new_signature ==
                Append(get_signature(a.graph, start_id)[1], component_id)
             r == get_or_create_archetype(a.graph, new_signature)
         IN  [archetypes |-> [a EXCEPT !.graph = r.graph], id |-> r.id]

Max(x, y) == IF x >= y THEN x ELSE y

\* A plausible slip: equal ids are let through.
move_entity_split_ok_same_allowed(storage, source_id, target_id) ==
    Max(source_id, target_id) < Len(storage)

\* move_entity's split: split_at_mut(max) panics past the end of storage,
\* target_slice[0] on an empty slice, source_slice[target] when the ids are
\* equal.
move_entity_split_ok(storage, source_id, target_id) ==
    /\ Max(source_id, target_id) < Len(storage)
    /\ source_id # target_id

\* A plausible slip: the second branch hands the two halves out the other
\* way round.
move_entity_split_swapped(source_id, target_id) ==
    LET mid == Max(source_id, target_id)
    IN  IF source_id < target_id
        THEN [source |-> source_id, target |-> mid]
        ELSE [source |-> target_id, target |-> mid]

\* The storage indices (0-based) of the archetypes move_entity binds to
\* source_archetype and target_archetype.
move_entity_split(source_id, target_id) ==
    LET mid == Max(source_id, target_id)
    IN  IF source_id < target_id
        THEN [source |-> source_id, target |-> mid]
        ELSE [source |-> mid, target |-> target_id]

\* What move_entity needs to run to its end.
move_entity_ok(a, location, target_id) ==
    /\ move_entity_split_ok(a.storage, location.archetype_id, target_id)
    /\ LET split == move_entity_split(location.archetype_id, target_id)
       IN  /\ add_moved_entity_ok(a.storage[split.target + 1],
                                  a.storage[split.source + 1], location.row)
           /\ StoreArchetype_remove_ok(a.storage[split.source + 1], location.row)

\* A plausible slip: the first element of the pair remove returns, the
\* removed entity, is handed back as the displaced one.
move_entity_returns_removed(a, entity, location, target_id) ==
    LET split == move_entity_split(location.archetype_id, target_id)
        added == StoreArchetype_add_moved_entity(
                    a.storage[split.target + 1], entity,
                    a.storage[split.source + 1], location.row)
        removed == StoreArchetype_remove(a.storage[split.source + 1],
                                         location.row)
    IN  [archetypes |-> [a EXCEPT !.storage =
                            [@ EXCEPT ![split.target + 1] = added.archetype,
                                      ![split.source + 1] = removed.archetype]],
         new_location |-> [archetype_id |-> target_id, row |-> added.row],
         moved_entity_in_source |-> <<removed.removed>>]

\* move_entity: add_moved_entity into the target, remove from the source;
\* returns the new location and the entity the removal displaced.
move_entity(a, entity, location, target_id) ==
    LET split == move_entity_split(location.archetype_id, target_id)
        added == StoreArchetype_add_moved_entity(
                    a.storage[split.target + 1], entity,
                    a.storage[split.source + 1], location.row)
        removed == StoreArchetype_remove(a.storage[split.source + 1],
                                         location.row)
    IN  [archetypes |-> [a EXCEPT !.storage =
                            [@ EXCEPT ![split.target + 1] = added.archetype,
                                      ![split.source + 1] = removed.archetype]],
         new_location |-> [archetype_id |-> target_id, row |-> added.row],
         moved_entity_in_source |-> removed.moved]

(***************************************************************************)
(* World::spawn (world.rs): [entity manager, registry, archetypes] after   *)
(* the call.  The row Archetype::add returns is dropped: the World holds   *)
(* no EntityLocation.                                                      *)
(***************************************************************************)
World_spawn(n, reg, a, bundle) ==
    LET entity == EntityManager_spawn(n)
        types == [j \in 1..Len(bundle) |-> bundle[j][1]]
        registered == register_components(reg, types)
        component_ids == component_ids_of(registered, types)
        got == get_or_create_for_bundle(a, component_ids)
        component_data_to_add ==
            [j \in 1..Len(bundle) |-> <<component_ids[j], bundle[j][2]>>]
        added == StoreArchetype_add(got.archetypes.storage[got.id + 1],
                                    entity, component_data_to_add)
    IN  [entity |-> entity,
         next_index |-> n + 1,
         infos |-> registered,
         archetypes |-> [got.archetypes EXCEPT
                            !.storage[got.id + 1] = added.archetype],
         archetype_id |-> got.id,
         row |-> added.row]

(***************************************************************************)
(* Query (query.rs).  The system under study is                            *)
(* fn s(q: Query<(Entity, &T1, ..)>) { for item in q { .. } }; `types` is  *)
(* the tuple <<T1, ..>> (possibly empty: Query<Entity>).                   *)
(***************************************************************************)
\* Archetypes::get: storage.get(id.0); usize::MAX is past every storage.
Archetypes_get(a, id) ==
    IF id # PlaceholderId /\ id < Len(a.storage)
    THEN <<a.storage[id + 1]>>
    ELSE <<>>

\* Q::get_access for the tuple: every element registers its type and gives
\* (id, mutable); the lists are joined and no conflict is looked for
\* (query.rs:135, "TODO: Check for mutability conflicts").
get_access(reg, types, muts) ==
    LET registered == register_components(reg, types)
        ids == component_ids_of(registered, types)
    IN  [infos |-> registered,
         access |-> [j \in 1..Len(types) |-> <<ids[j], muts[j]>>]]

\* QueryState::new: get_access registers every &T of the tuple; the state
\* lists Archetype::id() of the stored archetypes that have a column for
\* each required id, in storage order.
QueryState_new(reg, a, types) ==
    LET registered == register_components(reg, types)
        required_ids == component_ids_of(registered, types)
        matching == SelectSeq(a.storage, LAMBDA archetype :
                        \A j \in 1..Len(required_ids) :
                            has_component(archetype, required_ids[j]))
    IN  [infos |-> registered,
         state |-> [matching_archetypes |->
                        [j \in 1..Len(matching) |-> matching[j].id]]]

\* Q::new_fetch for the tuple: None (<<>>) when a type is unregistered or
\* the archetype has no column for it; Entity's fetch is always Some.
new_fetch(reg, archetype, archetype_id, types) ==
    IF \A j \in 1..Len(types) :
          /\ get_id(reg, types[j]) # <<>>
          /\ has_component(archetype, get_id(reg, types[j])[1])
    THEN <<[archetype_id |-> archetype_id,
            component_ids |-> [j \in 1..Len(types) |-> get_id(reg, types[j])[1]]]>>
    ELSE <<>>

\* Q::fetch: the entity and a reference to the element `row` places past the
\* start of each column fetched; `values` are the bytes referred to (Uninit
\* for memory never written).
fetch(a, f, row) ==
    LET archetype == a.storage[f.archetype_id + 1]
    IN  [archetype_id |-> f.archetype_id,
         row |-> row,
         entity |-> archetype.entities[row + 1],
         values |-> [j \in 1..Len(f.component_ids) |->
                        bytes_at(archetype.columns[f.component_ids[j]], row)]]

\* Query::into_iter.
into_iter ==
    [archetype_index |-> 0, current_fetch |-> <<>>,
     current_archetype_len |-> 0, row_index |-> 0]

\* QueryIter::next: [it |-> the iterator after the call, item |-> <<item>>
\* or <<>> for None, panicked |-> the expect on Archetypes::get failed].
RECURSIVE QueryIter_next(_, _, _, _, _)
QueryIter_next(a, reg, types, state, it) ==
    IF it.current_fetch # <<>> /\ it.row_index < it.current_archetype_len
    THEN [it |-> [it EXCEPT !.row_index = @ + 1],
          item |-> <<fetch(a, it.current_fetch[1], it.row_index)>>,
          panicked |-> FALSE]
    ELSE IF it.archetype_index = Len(state.matching_archetypes)
    THEN [it |-> it, item |-> <<>>, panicked |-> FALSE]
    ELSE LET archetype_id == state.matching_archetypes[it.archetype_index + 1]
             advanced == [it EXCEPT !.archetype_index = @ + 1]
             found == Archetypes_get(a, archetype_id)
         IN  IF found = <<>>
             THEN [it |-> advanced, item |-> <<>>, panicked |-> TRUE]
             ELSE LET f == new_fetch(reg, found[1], archetype_id, types)
                  IN  QueryIter_next(a, reg, types, state,
                        IF f # <<>>
                        THEN [advanced EXCEPT
                                !.current_fetch = f,
                                !.row_index = 0,
                                !.current_archetype_len = Len(found[1].entities)]
                        ELSE [advanced EXCEPT !.current_fetch = <<>>])

\* The for loop of the system body: the items next() yields until None or
\* a panic.
RECURSIVE for_item_in(_, _, _, _, _)
for_item_in(a, reg, types, state, it) ==
    LET r == QueryIter_next(a, reg, types, state, it)
    IN  IF r.panicked THEN [items |-> <<>>, panicked |-> TRUE]
        ELSE IF r.item = <<>> THEN [items |-> <<>>, panicked |-> FALSE]
        ELSE LET rest == for_item_in(a, reg, types, state, r.it)
             IN  [items |-> <<r.item[1]>> \o rest.items,
                  panicked |-> rest.panicked]

\* FunctionSystem::run of the query system: initialize on the first run,
\* then the body.  [infos, state, items, panicked].
FunctionSystem_run(reg, a, types, system_state) ==
    LET init == QueryState_new(reg, a, types)
        registered == IF system_state = <<>> THEN init.infos ELSE reg
        state == IF system_state = <<>> THEN init.state ELSE system_state[1]
        body == for_item_in(a, registered, types, state, into_iter)
    IN  [infos |-> registered, state |-> <<state>>,
         items |-> body.items, panicked |-> body.panicked]
(***************************************************************************)
(* Commands and the schedule (commands/mod.rs, system/, world.rs).  A      *)
(* system is a function of `params` parameters (1 to 3), one of them       *)
(* Commands, whose body pushes `pushes` commands through it each run and   *)
(* returns Err when `fails`.  A command is named by who pushed it:         *)
(* [system, run, k, chain], system 0 being a caller of World::add_command  *)
(* and system -1 a command's execute; `chain` is the number of commands    *)
(* its execute, and theirs, queue in turn (0 for CreateResource).          *)
(***************************************************************************)
\* The largest tuple of parameters a function system takes
\* (all_tuples!(impl_system_param_function, 0, 3, P, p)).
MaxParams == 3

\* SystemParam::init_state of Commands: an empty buffer.
Commands_init_state == <<>>

\* Commands::push / insert_resource, `pushes` times: push_back on the buffer
\* the parameter shares with its state.
RECURSIVE Commands_push(_, _, _, _)
Commands_push(buffer, system, run, k) ==
    IF k = 0 THEN buffer
    ELSE Append(Commands_push(buffer, system, run, k - 1),
                [system |-> system, run |-> run, k |-> k, chain |-> 0])

\* SystemParam::apply_buffers as the trait defines it: an empty body.
SystemParam_apply_buffers(buffer, queue) ==
    [buffer |-> buffer, queue |-> queue]

\* apply_buffers of the parameter tuple of a function of `params`
\* parameters: (P,), (P, Q) and (P, Q, R) do not override the default.
tuple_apply_buffers(params, buffer, queue) ==
    SystemParam_apply_buffers(buffer, queue)

\* World::add_command.
World_add_command(queue, command) == Append(queue, command)

\* Command::execute(world) as far as the queue goes: the commands it hands
\* to World::add_command.  CreateResource::execute queues nothing.
Command_execute(command) ==
    IF command.chain > 0
    THEN <<[system |-> -1, run |-> command.run, k |-> command.k,
            chain |-> command.chain - 1]>>
    ELSE <<>>

\* `for command in commands { command.execute(self) }` over the batch taken
\* from the queue; `queue` is World::command_queue meanwhile.
RECURSIVE execute_batch(_, _, _)
execute_batch(commands, queue, done) ==
    IF commands = <<>> THEN [queue |-> queue, executed |-> done]
    ELSE execute_batch(Tail(commands),
                       queue \o Command_execute(Head(commands)),
                       Append(done, Head(commands)))

\* A plausible slip: `if` for `while`, one batch only.
World_flush_commands_one_batch(queue, done) ==
    execute_batch(queue, <<>>, done)

\* World::flush_commands: while the queue is not empty, takes it and
\* executes the batch in order.  [queue, executed].
RECURSIVE World_flush_commands(_, _)
World_flush_commands(queue, done) ==
    IF queue = <<>> THEN [queue |-> queue, executed |-> done]
    ELSE LET r == execute_batch(queue, <<>>, done)
         IN  World_flush_commands(r.queue, r.executed)

\* FunctionSystem::run of system `index` (1-based) in run `run`: initialize
\* on the first run, get_param, the body, then the panic when the body
\* returned Err, apply_buffers otherwise.  [state, queue, pushed, panicked].
System_run(system, index, run, system_state, queue) ==
    LET buffer == IF system_state = <<>> THEN Commands_init_state
                  ELSE system_state[1]
        after_body == Commands_push(buffer, index, run, system.pushes)
        applied == IF system.fails
                   THEN [buffer |-> after_body, queue |-> queue]
                   ELSE tuple_apply_buffers(system.params, after_body, queue)
    IN  [state |-> <<applied.buffer>>,
         queue |-> applied.queue,
         pushed |-> SubSeq(after_body, Len(buffer) + 1, Len(after_body)),
         panicked |-> system.fails]
(***************************************************************************)
(* ComponentRegistry as component.rs keeps it: the map type_to_id and the  *)
(* vector infos of ComponentInfo [id, type_id] (layout and name follow the *)
(* type).  The `reg` of the store above is its list of type_ids.           *)
(***************************************************************************)
\* The types SpecRegistry registers, named by number (their TypeId).
RegistryTypes == 1..NumRegistryTypes

\* ComponentRegistry::default().
ComponentRegistry_default == [type_to_id |-> <<>>, infos |-> <<>>]

\* A plausible slip: or_insert in place of or_insert_with, so the info is
\* built and pushed on every call and only the map entry is kept.
ComponentRegistry_register_eager(r, type_id) ==
    LET id == Len(r.infos)
        pushed == Append(r.infos, [id |-> id, type_id |-> type_id])
    IN  IF type_id \in DOMAIN r.type_to_id
        THEN [registry |-> [r EXCEPT !.infos = pushed],
              id |-> r.type_to_id[type_id]]
        ELSE [registry |-> [type_to_id |-> MapPut(r.type_to_id, type_id, id),
                            infos |-> pushed],
              id |-> id]

\* ComponentRegistry::register: entry(type_id).or_insert_with: a known type
\* returns its id; a new one takes ComponentId(infos.len()), pushes its
\* info and enters the map.  [registry, id].
ComponentRegistry_register(r, type_id) ==
    IF type_id \in DOMAIN r.type_to_id
    THEN [registry |-> r, id |-> r.type_to_id[type_id]]
    ELSE LET id == Len(r.infos)
         IN  [registry |->
                [type_to_id |-> MapPut(r.type_to_id, type_id, id),
                 infos |-> Append(r.infos, [id |-> id, type_id |-> type_id])],
              id |-> id]

\* ComponentRegistry::get_id: Some(id) as <<id>>, None as <<>>.
ComponentRegistry_get_id(r, type_id) ==
    IF type_id \in DOMAIN r.type_to_id THEN <<r.type_to_id[type_id]>> ELSE <<>>

\* ComponentRegistry::get_info: infos.get(id.0).
ComponentRegistry_get_info(r, id) ==
    IF id < Len(r.infos) THEN <<r.infos[id + 1]>> ELSE <<>>
(***************************************************************************)
(* Resources and the SystemParam protocol of a function system             *)
(* (resource.rs, system/parameter.rs, system/function_system.rs).  A       *)
(* parameter is [kind, type]: Res<T>, Option<Res<T>> or Commands (type 0). *)
(* What a parameter hands the body is [present, value]: the resource read  *)
(* through Res, or nothing.                                                *)
(***************************************************************************)
\* The resource types of the application, named by number (their TypeId).
ResourceTypes == 1..NumResources

\* The parameter types a system function can name.
ParamKinds ==
    [kind : {"Res", "OptionRes"}, type : ResourceTypes]
        \cup {[kind |-> "Commands", type |-> 0]}

\* Resources::new().
Resources_new == <<>>

\* A plausible slip: the value of a type that has one is kept
\* (entry().or_insert for insert).
Resources_insert_keeps_first(data, type, value) ==
    IF type \in DOMAIN data THEN data ELSE MapPut(data, type, value)

\* Resources::insert: data.insert(TypeId::of::<T>(), Box::new(value)).
Resources_insert(data, type, value) == MapPut(data, type, value)

\* Resources::get / World::get_resource: Some(&T) as <<value>>, None as <<>>.
Resources_get(data, type) ==
    IF type \in DOMAIN data THEN <<data[type]>> ELSE <<>>

NoItem == [present |-> FALSE, value |-> 0]

\* Res<T>::get_param: get_resource::<T>().expect("resource not found").
Res_get_param(data, type) ==
    LET resource == Resources_get(data, type)
    IN  IF resource = <<>>
        THEN [item |-> NoItem, panicked |-> TRUE]
        ELSE [item |-> [present |-> TRUE, value |-> resource[1]],
              panicked |-> FALSE]

\* A plausible slip: the optional parameter looks the resource up the way
\* Res does.
OptionRes_get_param_expect(data, type) == Res_get_param(data, type)

\* Option<Res<T>>::get_param: get_resource::<T>().map(Res::new).
OptionRes_get_param(data, type) ==
    LET resource == Resources_get(data, type)
    IN  IF resource = <<>>
        THEN [item |-> NoItem, panicked |-> FALSE]
        ELSE [item |-> [present |-> TRUE, value |-> resource[1]],
              panicked |-> FALSE]

\* P::init_state of one parameter: the empty buffer of Commands, () for the
\* resource parameters.
Param_init_state(param) ==
    IF param.kind = "Commands" THEN Commands_init_state ELSE <<>>

\* P::get_param of one parameter; Commands hands out a handle on its buffer.
Param_get_param(param, data) ==
    IF param.kind = "Res" THEN Res_get_param(data, param.type)
    ELSE IF param.kind = "OptionRes" THEN OptionRes_get_param(data, param.type)
    ELSE [item |-> NoItem, panicked |-> FALSE]

\* init_state of the tuple: each member's, in order.
tuple_init_state(params) ==
    [j \in 1..Len(params) |-> Param_init_state(params[j])]

\* get_param of the tuple: each member's, in order; the panic of a member
\* ends it.  [items, panicked].
RECURSIVE tuple_get_param(_, _)
tuple_get_param(params, data) ==
    IF params = <<>> THEN [items |-> <<>>, panicked |-> FALSE]
    ELSE LET first == Param_get_param(Head(params), data)
         IN  IF first.panicked
             THEN [items |-> <<>>, panicked |-> TRUE]
             ELSE LET rest == tuple_get_param(Tail(params), data)
                  IN  [items |-> <<first.item>> \o rest.items,
                       panicked |-> rest.panicked]

\* The body: it pushes one command through every Commands it was handed.
body_pushes(params, state, call) ==
    [j \in 1..Len(params) |->
        IF params[j].kind = "Commands"
        THEN Commands_push(state[j], j, call, 1)
        ELSE state[j]]

Step(step, call) == [step |-> step, call |-> call]

\* FunctionSystem::initialize: init_state unless the state is Some.
\* [state, steps].
FunctionSystem_initialize(system, system_state, call) ==
    IF system_state # <<>>
    THEN [state |-> system_state, steps |-> <<>>]
    ELSE [state |-> <<tuple_init_state(system.params)>>,
          steps |-> <<Step("init_state", call)>>]

\* FunctionSystem::run for a tuple of parameters: initialize when the state
\* is None, get_param, the body, the panic when the body returned Err,
\* apply_buffers otherwise.  [state, resources, queue, steps, received,
\* body_ran, panicked]; no step of it writes to World::resources.
FunctionSystem_run_tuple(system, system_state, data, queue, call) ==
    LET init == FunctionSystem_initialize(system, system_state, call)
        got == tuple_get_param(system.params, data)
        after_body == body_pushes(system.params, init.state[1], call)
        applied == tuple_apply_buffers(Len(system.params), after_body, queue)
    IN  IF got.panicked
        THEN [state |-> init.state, resources |-> data, queue |-> queue,
              steps |-> init.steps \o <<Step("get_param", call)>>,
              received |-> <<>>, body_ran |-> FALSE, panicked |-> TRUE]
        ELSE IF system.fails
        THEN [state |-> <<after_body>>, resources |-> data, queue |-> queue,
              steps |-> init.steps
                  \o <<Step("get_param", call), Step("body", call)>>,
              received |-> got.items, body_ran |-> TRUE, panicked |-> TRUE]
        ELSE [state |-> <<applied.buffer>>, resources |-> data,
              queue |-> applied.queue,
              steps |-> init.steps
                  \o <<Step("get_param", call), Step("body", call),
                       Step("apply_buffers", call)>>,
              received |-> got.items, body_ran |-> TRUE, panicked |-> FALSE]
(***************************************************************************)
(* flux_memory: the thread's current region and its guards (region.rs) and *)
(* the counting global allocator (tracking_allocator.rs).  The counters    *)
(* are AtomicUsize; a usize is held as UsizeLimbs 16-bit limbs, most       *)
(* significant first, so that fetch_add and fetch_sub wrap where the       *)
(* code's do.                                                              *)
(***************************************************************************)
UsizeLimbs == 4

USIZE_ZERO == [i \in 1..UsizeLimbs |-> 0]

\* usize::MAX
USIZE_MAX == [i \in 1..UsizeLimbs |-> LimbMax]

\* v + 1 modulo 2^64
RECURSIVE usize_wrapping_inc(_)
usize_wrapping_inc(v) ==
    IF v = <<>> THEN <<>>
    ELSE LET n == Len(v)
         IN  IF v[n] < LimbMax
             THEN [v EXCEPT ![n] = @ + 1]
             ELSE Append(usize_wrapping_inc(SubSeq(v, 1, n - 1)), 0)

\* v - 1 modulo 2^64
RECURSIVE usize_wrapping_dec(_)
usize_wrapping_dec(v) ==
    IF v = <<>> THEN <<>>
    ELSE LET n == Len(v)
         IN  IF v[n] > 0
             THEN [v EXCEPT ![n] = @ - 1]
             ELSE Append(usize_wrapping_dec(SubSeq(v, 1, n - 1)), LimbMax)

\* AtomicUsize::fetch_add(n): the value stored, wrapping on overflow.
RECURSIVE fetch_add(_, _)
fetch_add(v, n) ==
    IF n = 0 THEN v ELSE fetch_add(usize_wrapping_inc(v), n - 1)

\* AtomicUsize::fetch_sub(n): the value stored, wrapping on overflow.
RECURSIVE fetch_sub(_, _)
fetch_sub(v, n) ==
    IF n = 0 THEN v ELSE fetch_sub(usize_wrapping_dec(v), n - 1)

\* enum Region, with the variants region_to_index names.
Regions == {"Graphics", "Physics", "Audio", "Scene", "General", "ECS"}

\* TrackedAllocator::region_to_index
region_to_index(region) ==
    CASE region = "Graphics" -> 0
      [] region = "Physics" -> 1
      [] region = "Audio" -> 2
      [] region = "Scene" -> 3
      [] region = "General" -> 4
      [] region = "ECS" -> 5

\* The initial value of CURRENT_REGION.
CURRENT_REGION_init == "General"

\* get_current_region
get_current_region(current) == current

\* A plausible slip: the guard remembers General instead of the region it
\* replaced.
RegionGuard_new_forgets(current, region) ==
    [current |-> region, guard |-> [previous |-> CURRENT_REGION_init]]

\* RegionGuard::new: the region becomes current; the guard keeps the one
\* that was.
RegionGuard_new(current, region) ==
    [current |-> region, guard |-> [previous |-> current]]

\* Drop for RegionGuard: CURRENT_REGION after the drop.
RegionGuard_drop(guard) == guard.previous

\* TrackedAllocator::new: six counters of each kind, all 0.
TrackedAllocator_new ==
    [allocations |-> [i \in 0..5 |-> USIZE_ZERO],
     allocated_bytes |-> [i \in 0..5 |-> USIZE_ZERO]]

\* TrackedAllocator::get_count
get_count(a, region) == a.allocations[region_to_index(region)]

\* TrackedAllocator::get_bytes
get_bytes(a, region) == a.allocated_bytes[region_to_index(region)]

\* GlobalAlloc::alloc: the counters of the current region go up.
TrackedAllocator_alloc(a, current, size) ==
    LET index == region_to_index(get_current_region(current))
    IN  [allocations |->
            [a.allocations EXCEPT ![index] = fetch_add(@, 1)],
         allocated_bytes |->
            [a.allocated_bytes EXCEPT ![index] = fetch_add(@, size)]]

\* GlobalAlloc::dealloc: the counters of the region current at the time of
\* the release go down, whichever region the block was counted in.
TrackedAllocator_dealloc(a, current, size) ==
    LET index == region_to_index(get_current_region(current))
    IN  [allocations |->
            [a.allocations EXCEPT ![index] = fetch_sub(@, 1)],
         allocated_bytes |->
            [a.allocated_bytes EXCEPT ![index] = fetch_sub(@, size)]]
(***************************************************************************)
(* The schedules, the resource map and the command queue of one World      *)
(* (schedule/mod.rs, system/systems.rs, resource.rs, commands/mod.rs,      *)
(* world.rs).  A scheduled system is [fn, state]: fn is [name, params,     *)
(* fails, inserts], the function `name` whose body calls insert_resource,  *)
(* with a resource of type `inserts`, on every Commands it is handed and   *)
(* returns Err when `fails`.  A command of the world's queue is            *)
(* CreateResource: the record of a command with the resource [type,        *)
(* value] it carries.                                                      *)
(***************************************************************************)
ScheduleLabels == {"Initialization", "Main", "Destroy"}

\* Systems::default(): no system, CommandFlushTechnique::default().
Systems_default == [systems |-> <<>>, command_flush_technique |-> "AfterAll"]

\* Schedule::default().
Schedule_default == [systems |-> Systems_default]

\* Schedules::new(): the Initialization and the Main schedule.
Schedules_new ==
    [label \in {"Initialization", "Main"} |-> Schedule_default]

\* Systems::add_system: push(Box::new(into_system(system))); the state of a
\* new FunctionSystem is None.
Systems_add_system(s, system) ==
    [s EXCEPT !.systems = Append(@, [fn |-> system, state |-> <<>>])]

\* Schedules::add: schedule_map.entry(label).or_default(), then add_system.
Schedules_add(map, label, system) ==
    LET schedule == IF label \in DOMAIN map THEN map[label]
                    ELSE Schedule_default
    IN  MapPut(map, label,
               [systems |-> Systems_add_system(schedule.systems, system)])

\* Schedules::take_systems: std::mem::take on the systems of the schedule
\* of the label, which leaves Systems::default() there; None when the map
\* has no such schedule.  [schedule_map, ret].
Schedules_take_systems(map, label) ==
    IF label \in DOMAIN map
    THEN [schedule_map |-> MapPut(map, label, [systems |-> Systems_default]),
          ret |-> <<map[label].systems>>]
    ELSE [schedule_map |-> map, ret |-> <<>>]

\* Schedules::put_systems: the systems of the schedule of the label become
\* those handed in, whatever it held; nothing when the map has no such
\* schedule.
Schedules_put_systems(map, label, s) ==
    IF label \in DOMAIN map
    THEN MapPut(map, label, [systems |-> s])
    ELSE map

\* Resources::get_mut followed by a write of `value` through the reference:
\* the instance of the type is changed in place; None (<<>>) and no write
\* when the map has none.  [data, ret], ret the instance found.
Resources_get_mut(data, type, value) ==
    IF type \in DOMAIN data
    THEN [data |-> [data EXCEPT ![type] = value], ret |-> <<data[type]>>]
    ELSE [data |-> data, ret |-> <<>>]

\* Resources::remove: data.remove(TypeId), downcast.  [data, ret], ret
\* Some(value) as <<value>>, None as <<>>.
Resources_remove(data, type) ==
    [data |-> [t \in DOMAIN data \ {type} |-> data[t]],
     ret |-> IF type \in DOMAIN data THEN <<data[type]>> ELSE <<>>]

\* Box::new(CreateResource { resource }) handed to World::add_command, as
\* the k-th command of call `call`.
CreateResource(type, value, call, k) ==
    [system |-> 0, run |-> call, k |-> k, chain |-> 0,
     resource |-> [type |-> type, value |-> value]]

\* CreateResource::execute: world.insert_resource(self.resource).
CreateResource_execute(data, command) ==
    Resources_insert(data, command.resource.type, command.resource.value)

\* The resources after the commands a flush executed, in order.
RECURSIVE execute_on(_, _)
execute_on(data, commands) ==
    IF commands = <<>> THEN data
    ELSE execute_on(CreateResource_execute(data, Head(commands)),
                    Tail(commands))

\* World::flush_commands with its effect on the resources.
\* [resources, queue, executed].
World_flush(data, queue) ==
    LET flushed == World_flush_commands(queue, <<>>)
    IN  [resources |-> execute_on(data, flushed.executed),
         queue |-> flushed.queue,
         executed |-> flushed.executed]

\* Systems::run from system `index` on: system.run(world), the flush when
\* the technique is AfterEach; after the loop the flush when it is
\* AfterAll.  [systems, resources, queue, ran, seen, executed, panicked]:
\* `ran` names the systems whose body ran, `seen` the resources each system
\* started found, `panicked` is "" or the message of the panic that unwound
\* the call.
RECURSIVE Systems_run_from(_, _, _, _, _, _)
Systems_run_from(s, index, data, queue, call, acc) ==
    IF index > Len(s.systems)
    THEN LET flushed == IF s.command_flush_technique = "AfterAll"
                        THEN World_flush(data, queue)
                        ELSE [resources |-> data, queue |-> queue,
                              executed |-> <<>>]
         IN  [systems |-> s, resources |-> flushed.resources,
              queue |-> flushed.queue, ran |-> acc.ran, seen |-> acc.seen,
              executed |-> acc.executed \o flushed.executed,
              panicked |-> ""]
    ELSE LET r == FunctionSystem_run_tuple(s.systems[index].fn,
                                           s.systems[index].state,
                                           data, queue, call)
             after == [s EXCEPT !.systems[index].state = r.state]
             ran == IF r.body_ran
                    THEN Append(acc.ran, s.systems[index].fn.name)
                    ELSE acc.ran
             seen == Append(acc.seen, data)
         IN  IF r.panicked
             THEN [systems |-> after, resources |-> r.resources,
                   queue |-> r.queue, ran |-> ran, seen |-> seen,
                   executed |-> acc.executed,
                   panicked |-> IF r.body_ran THEN "system returned Err"
                                ELSE "resource not found"]
             ELSE LET flushed == IF s.command_flush_technique = "AfterEach"
                                 THEN World_flush(r.resources, r.queue)
                                 ELSE [resources |-> r.resources,
                                       queue |-> r.queue, executed |-> <<>>]
                  IN  Systems_run_from(after, index + 1, flushed.resources,
                                       flushed.queue, call,
                                       [ran |-> ran, seen |-> seen,
                                        executed |-> acc.executed
                                            \o flushed.executed])

\* Systems::run.
Systems_run(s, data, queue, call) ==
    Systems_run_from(s, 1, data, queue, call,
                     [ran |-> <<>>, seen |-> <<>>, executed |-> <<>>])

\* Schedules::run_schedule: systems.run(world) of the schedule of the label
\* when the map has one, nothing otherwise.
Schedules_run_schedule(map, label, data, queue, call) ==
    IF label \in DOMAIN map
    THEN LET r == Systems_run(map[label].systems, data, queue, call)
         IN  [schedule_map |-> MapPut(map, label, [systems |-> r.systems]),
              resources |-> r.resources, queue |-> r.queue,
              ran |-> r.ran, seen |-> r.seen, executed |-> r.executed,
              panicked |-> r.panicked]
    ELSE [schedule_map |-> map, resources |-> data, queue |-> queue,
          ran |-> <<>>, seen |-> <<>>, executed |-> <<>>, panicked |-> ""]
(***************************************************************************)
(* The state of a subsystem a specification does not exercise.             *)
(***************************************************************************)
ColIdle ==
    /\ next_index = EntityManager_new
    /\ col = with_capacity(1)
    /\ col_prev = col
    /\ col_op = [op |-> "new", arg |-> 0, panicked |-> FALSE, read |-> <<>>]

MgrIdle ==
    /\ archetypes = <<>>
    /\ entity_locations = <<>>
    /\ mgr_prev = [archetypes |-> <<>>, entity_locations |-> <<>>]
    /\ mgr_op = [op |-> "new", entity |-> 0, components |-> <<>>,
                 panicked |-> FALSE]
    /\ debug_assertions = FALSE

\* The tuples of component types a bundle type can name.
TypedBundleShapes == UNION {[1..n -> ComponentTypes] : n \in 1..MaxBundleLen}

\* The component lists the graph can be asked for.
ComponentLists == UNION {[1..n -> ComponentIds] : n \in 0..MaxSigLen}

NoCall == [valid |-> FALSE, components |-> <<>>, id |-> 0]

StoreIdle ==
    /\ infos = <<>>
    /\ store = Archetypes_new
    /\ recorded = <<>>
    /\ store_prev = Archetypes_new
    /\ store_op = [op |-> "new", args |-> <<>>, ret |-> <<>>, panicked |-> FALSE]
    /\ goc_kept = NoCall
    /\ moves = 0


QueryIdle ==
    /\ q_types = <<>>
    /\ q_mut = <<>>
    /\ q_state = <<>>

SchedIdle ==
    /\ technique = "AfterAll"
    /\ systems = <<>>
    /\ sys_state = <<>>
    /\ command_queue = <<>>
    /\ executed = <<>>
    /\ pc = <<"idle">>
    /\ trace = <<>>
    /\ runs = 0

EntityIdle ==
    /\ em = EntityManager_new_u32
    /\ em_first = U32_ZERO
    /\ em_returned = <<>>
    /\ em_op = [op |-> "new", index |-> U32_ZERO, panicked |-> FALSE]

RegistryIdle ==
    /\ registry = ComponentRegistry_default
    /\ registry_prev = ComponentRegistry_default
    /\ registry_op = [op |-> "new", type_id |-> 0, id |-> 0]

NoSystemCall ==
    [op |-> "new", call |-> 0, data |-> <<>>, data_after |-> <<>>,
     received |-> <<>>, body_ran |-> FALSE, panicked |-> FALSE]

ParamIdle ==
    /\ resources = Resources_new
    /\ fsys = [params |-> <<>>, fails |-> FALSE]
    /\ fsys_state = <<>>
    /\ calls = <<>>
    /\ fsys_op = NoSystemCall

NoMemCall == [op |-> "new", region |-> CURRENT_REGION_init, size |-> 0, call |-> 0]

MemoryIdle ==
    /\ current_region = CURRENT_REGION_init
    /\ guards = <<>>
    /\ guards_lifo = TRUE
    /\ allocator = TrackedAllocator_new
    /\ blocks = <<>>
    /\ mem_prev = [current_region |-> current_region, allocator |-> allocator]
    /\ mem_op = NoMemCall

NoWorldCall ==
    [op |-> "new", call |-> 0, label |-> "", type |-> 0, value |-> 0,
     ret |-> <<>>, ran |-> <<>>, seen |-> <<>>, executed |-> <<>>,
     panicked |-> ""]

WorldIdle ==
    /\ schedule_map = Schedules_new
    /\ registrations = <<>>
    /\ taken = <<>>
    /\ last_inserted = <<>>
    /\ world_prev = [resources |-> Resources_new, queue |-> <<>>,
                     schedule_map |-> Schedules_new]
    /\ world_op = NoWorldCall

ColumnMemoryIdle ==
    /\ mcol = with_capacity(1)
    /\ mcol_size = 1
    /\ mcol_op = [op |-> "with_capacity", arg |-> 1, length_before |-> 0,
                  requests |-> with_capacity_requests(1, 1), copied |-> 0,
                  aborted |-> FALSE]

RestIdle ==
    /\ EntityIdle /\ RegistryIdle /\ ParamIdle /\ MemoryIdle /\ WorldIdle
    /\ ColumnMemoryIdle
(***************************************************************************)
(* SpecColumn: one column, any sequence of push and swap_remove calls.     *)
(***************************************************************************)
NoOp == [op |-> "new", arg |-> 0, panicked |-> FALSE, read |-> <<>>]

ColInit ==
    /\ \E capacity \in 1..MaxInitCap : col = with_capacity(capacity)
    /\ col_prev = col
    /\ col_op = NoOp
    /\ next_index = EntityManager_new
    /\ MgrIdle
    /\ StoreIdle
    /\ QueryIdle
    /\ SchedIdle
    /\ RestIdle

ColPush ==
    /\ col.length < MaxColLen
    /\ \E value \in Values :
        /\ col' = push(col, value)
        /\ col_op' = [op |-> "push", arg |-> value, panicked |-> FALSE, read |-> <<>>]
    /\ col_prev' = col
    /\ UNCHANGED not_col

\* swap_remove with any index; an index that fails the assertion panics
\* before the column is touched.
ColSwapRemove ==
    /\ \E index \in 0..MaxColLen :
        IF swap_remove_ok(col, index)
        THEN /\ col' = swap_remove(col, index)
             /\ col_op' = [op |-> "swap_remove", arg |-> index, panicked |-> FALSE, read |-> <<>>]
        ELSE /\ col' = col
             /\ col_op' = [op |-> "swap_remove", arg |-> index, panicked |-> TRUE, read |-> <<>>]
    /\ col_prev' = col
    /\ UNCHANGED not_col

\* ptr_at with any index (directly or through get_component_ptr) and a read
\* through the address returned: the assertion of ptr_at panics, or the
\* read gives one of the values read_at allows (`read`).  The column is not
\* touched.
ColPtrAt ==
    /\ \E index \in 0..MaxColLen :
        IF ptr_at_ok(col, index)
        THEN \E value \in read_at(col, index) :
                col_op' = [op |-> "ptr_at", arg |-> index, panicked |-> FALSE,
                           read |-> <<value>>]
        ELSE col_op' = [op |-> "ptr_at", arg |-> index, panicked |-> TRUE,
                        read |-> <<>>]
    /\ col' = col
    /\ col_prev' = col
    /\ UNCHANGED not_col

ColNext == ColPush \/ ColSwapRemove \/ ColPtrAt

SpecColumn == ColInit /\ [][ColNext]_vars

(***************************************************************************)
(* SpecMgr: an ArchetypeManager fed by EntityManager::spawn.  A spawn      *)
(* takes a fresh handle and inserts the bundle under the set of its ids;   *)
(* a bundle whose pair count differs from the archetype's type count       *)
(* panics in Archetype::insert, after the archetype was created; in a      *)
(* build with debug assertions a pair that fails them panics inside the    *)
(* loop of Archetype::insert, after the pairs before it were pushed.  The  *)
(* build is chosen once, when the program starts.  A pair whose component  *)
(* is smaller than the cells of the column it lands in is read past its    *)
(* end; what the cell then holds is a choice.                              *)
(***************************************************************************)
MgrSpawn ==
    /\ next_index < MaxEntities
    /\ \E ids \in BundleShapes :
        LET entity == EntityManager_spawn(next_index)
            components == bundle_of(entity, ids)
            component_set == {components[j][1] : j \in DOMAIN components}
            created == ArchetypeManager_get_or_create_archetype(
                            archetypes, component_set)
            counted == Len(components) = Len(created[component_set].types)
        IN  IF Archetype_insert_ok(created[component_set], components,
                                   debug_assertions)
            THEN \E r \in ArchetypeManager_insert(archetypes,
                                entity_locations, entity, component_set,
                                components, debug_assertions) :
                     /\ archetypes' = r.archetypes
                     /\ entity_locations' = r.entity_locations
                     /\ mgr_op' = [op |-> "insert", entity |-> entity,
                                   components |-> components,
                                   panicked |-> FALSE]
            ELSE /\ IF counted
                    THEN \E a \in Archetype_insert(created[component_set],
                                    entity, components, debug_assertions) :
                            archetypes' = [created EXCEPT ![component_set] = a]
                    ELSE archetypes' = created
                 /\ entity_locations' = entity_locations
                 /\ mgr_op' = [op |-> "insert", entity |-> entity,
                               components |-> components,
                               panicked |-> TRUE]
    /\ next_index' = next_index + 1
    /\ mgr_prev' = [archetypes |-> archetypes,
                    entity_locations |-> entity_locations]
    /\ UNCHANGED debug_assertions
    /\ UNCHANGED not_mgr

\* remove_entity with any handle, live or not.
MgrRemoveEntity ==
    /\ \E entity \in Entities :
        LET r == ArchetypeManager_remove_entity(archetypes, entity_locations,
                                                entity)
        IN  /\ archetypes' = r.archetypes
            /\ entity_locations' = r.entity_locations
            /\ mgr_op' = [op |-> "remove_entity", entity |-> entity,
                          components |-> <<>>,
                          panicked |-> FALSE]
    /\ mgr_prev' = [archetypes |-> archetypes,
                    entity_locations |-> entity_locations]
    /\ UNCHANGED <<next_index, debug_assertions>>
    /\ UNCHANGED not_mgr

MgrNext == MgrSpawn \/ MgrRemoveEntity

MgrInit ==
    /\ archetypes = <<>>
    /\ entity_locations = <<>>
    /\ mgr_prev = [archetypes |-> <<>>, entity_locations |-> <<>>]
    /\ mgr_op = [op |-> "new", entity |-> 0, components |-> <<>>,
                 panicked |-> FALSE]
    /\ debug_assertions \in BOOLEAN
    /\ ColIdle /\ StoreIdle /\ QueryIdle /\ SchedIdle /\ RestIdle

SpecMgr == MgrInit /\ [][MgrNext]_vars

(***************************************************************************)
(* The World's store: World::spawn, get_add_component_destination and      *)
(* move_entity in any order.  A panic ends the run.                        *)
(***************************************************************************)
\* World::spawn.  The TODO of world.rs stands: no EntityLocation is written.
StoreSpawn ==
    /\ ~store_op.panicked
    /\ next_index < MaxEntities
    /\ \E types \in TypedBundleShapes :
        LET bundle == bundle_of(EntityManager_spawn(next_index), types)
            r == World_spawn(next_index, infos, store, bundle)
        IN  /\ Len(r.archetypes.graph.signatures) <= MaxArchetypes
            /\ next_index' = r.next_index
            /\ infos' = r.infos
            /\ store' = r.archetypes
            /\ store_op' = [op |-> "spawn",
                            args |-> [bundle |-> bundle],
                            ret |-> [entity |-> r.entity,
                                     archetype_id |-> r.archetype_id,
                                     row |-> r.row],
                            panicked |-> FALSE]
    /\ store_prev' = store
    /\ UNCHANGED <<recorded, goc_kept, moves>>
    /\ UNCHANGED not_store

\* get_add_component_destination from any archetype of the graph with any
\* registered component.
StoreGetAddDestination ==
    /\ ~store_op.panicked
    /\ \E start_id \in 0..(Len(store.graph.signatures) - 1),
          component_id \in 0..(Len(infos) - 1) :
        /\ Len(store.graph.signatures[start_id + 1]) < MaxSigLen
        /\ get_add_component_destination_ok(store, start_id, component_id)
        /\ LET r == get_add_component_destination(store, start_id, component_id)
           IN  /\ Len(r.archetypes.graph.signatures) <= MaxArchetypes
               /\ store' = r.archetypes
               /\ store_op' = [op |-> "get_add_component_destination",
                               args |-> [start_id |-> start_id,
                                         component_id |-> component_id],
                               ret |-> [id |-> r.id],
                               panicked |-> FALSE]
    /\ store_prev' = store
    /\ UNCHANGED <<next_index, infos, recorded, goc_kept, moves>>
    /\ UNCHANGED not_store

\* move_entity of the entity of any row to any archetype of the graph.
StoreMoveEntity ==
    /\ ~store_op.panicked
    /\ moves < MaxMoves
    /\ moves' = moves + 1
    /\ \E source_id \in 0..(Len(store.storage) - 1),
          target_id \in 0..(Len(store.graph.signatures) - 1) :
        \E row \in 0..(Len(store.storage[source_id + 1].entities) - 1) :
            LET entity == store.storage[source_id + 1].entities[row + 1]
                location == [archetype_id |-> source_id, row |-> row]
                args == [entity |-> entity, location |-> location,
                         target_id |-> target_id]
            IN  IF move_entity_ok(store, location, target_id)
                THEN LET r == move_entity(store, entity, location, target_id)
                     IN  /\ store' = r.archetypes
                         /\ store_op' =
                              [op |-> "move_entity", args |-> args,
                               ret |-> [new_location |-> r.new_location,
                                        moved_entity_in_source |->
                                            r.moved_entity_in_source],
                               panicked |-> FALSE]
                ELSE /\ store' = store
                     /\ store_op' = [op |-> "move_entity", args |-> args,
                                     ret |-> <<>>, panicked |-> TRUE]
    /\ store_prev' = store
    /\ UNCHANGED <<next_index, infos, recorded, goc_kept>>
    /\ UNCHANGED not_store

StoreInit ==
    ColIdle /\ MgrIdle /\ StoreIdle /\ QueryIdle /\ SchedIdle /\ RestIdle

StoreNext == StoreSpawn \/ StoreGetAddDestination \/ StoreMoveEntity

SpecStore == StoreInit /\ [][StoreNext]_vars

(***************************************************************************)
(* SpecGraph: the archetype graph alone, asked for any component list.     *)
(***************************************************************************)
GraphGetOrCreate ==
    /\ \E components \in ComponentLists :
        LET r == get_or_create_archetype(store.graph, components)
        IN  /\ Len(r.graph.signatures) <= MaxGraphSize
            /\ store' = [store EXCEPT !.graph = r.graph]
            /\ store_op' = [op |-> "get_or_create_archetype",
                            args |-> [components |-> components],
                            ret |-> [id |-> r.id],
                            panicked |-> FALSE]
    /\ store_prev' = store
    /\ \/ goc_kept' = goc_kept
       \/ /\ store_op.op = "get_or_create_archetype"
          /\ ~goc_kept.valid
          /\ goc_kept' = [valid |-> TRUE,
                          components |-> store_op.args.components,
                          id |-> store_op.ret.id]
    /\ UNCHANGED <<next_index, infos, recorded, moves>>
    /\ UNCHANGED not_store

GraphInit ==
    ColIdle /\ MgrIdle /\ StoreIdle /\ QueryIdle /\ SchedIdle /\ RestIdle

GraphNext == GraphGetOrCreate

SpecGraph == GraphInit /\ [][GraphNext]_vars

(***************************************************************************)
(* SpecQuery: a World with one query system; entities are spawned and the  *)
(* system is run, in any order.  A panic ends the run.                     *)
(***************************************************************************)
\* The tuples of component types a query can name.
QueryShapes == UNION {[1..n -> ComponentTypes] : n \in 0..MaxBundleLen}

\* FunctionSystem::run of the query system.
QueryRun ==
    /\ ~store_op.panicked
    /\ LET r == FunctionSystem_run(infos, store, q_types, q_state)
       IN  /\ infos' = r.infos
           /\ q_state' = r.state
           /\ store_op' = [op |-> "run_system", args |-> <<>>,
                           ret |-> [items |-> r.items],
                           panicked |-> r.panicked]
    /\ store_prev' = store
    /\ UNCHANGED <<next_index, store, recorded, goc_kept, moves, q_types, q_mut>>
    /\ UNCHANGED not_query

QueryInit ==
    /\ ColIdle /\ MgrIdle /\ StoreIdle /\ SchedIdle /\ RestIdle
    /\ q_types \in QueryShapes
    /\ q_mut \in [1..Len(q_types) -> BOOLEAN]
    /\ q_state = <<>>

QueryNext == StoreSpawn \/ QueryRun

SpecQuery == QueryInit /\ [][QueryNext]_vars
(***************************************************************************)
(* SpecSched: Systems::run over a schedule of command-pushing systems,     *)
(* with commands also queued from outside between runs.  `trace` lists     *)
(* the events of the current run: a command found queued when the run      *)
(* begins, a system starting, a push, a system returning or its error, a   *)
(* command executing, the run returning.  The panic of a failed system     *)
(* unwinds through Systems::run and ends the run.  World::flush_commands   *)
(* is also called from outside a run; `trace` then lists the events of     *)
(* that call: the commands found queued and the commands executing.        *)
(***************************************************************************)
SystemShapes == [params : 1..MaxParams, pushes : 0..MaxPushes, fails : BOOLEAN]

Event(kind, system, command) ==
    [kind |-> kind, system |-> system, command |-> command]

NoCommand == [system |-> 0, run |-> 0, k |-> 0, chain |-> 0]

\* The exec events of the commands a flush executed.
ExecEvents(commands) ==
    [j \in 1..Len(commands) |-> Event("exec", commands[j].system, commands[j])]

\* The commands a flush added to the executed ones.
NewlyExecuted(before, after) == SubSeq(after, Len(before) + 1, Len(after))

SchedInit ==
    /\ ColIdle /\ MgrIdle /\ StoreIdle /\ QueryIdle /\ RestIdle
    /\ technique \in {"AfterEach", "AfterAll"}
    /\ systems \in UNION {[1..n -> SystemShapes] : n \in 1..MaxSystems}
    /\ sys_state = [j \in 1..Len(systems) |-> <<>>]
    /\ command_queue = <<>>
    /\ executed = <<>>
    /\ pc = <<"idle">>
    /\ trace = <<>>
    /\ runs = 0

\* Outside a run: no Systems::run is on the stack.
OutsideRun == pc \in {<<"idle">>, <<"returned">>, <<"flushed">>}

\* The number of commands queued from outside since the last run began,
\* executed by now or not.
AddedOutside ==
    Cardinality({p \in 1..Len(executed) :
                    executed[p].system = 0 /\ executed[p].run = runs})
    + Cardinality({p \in 1..Len(command_queue) :
                    command_queue[p].system = 0 /\ command_queue[p].run = runs})

\* World::add_command called from outside a run, with a command whose
\* execute queues `chain` further commands.
WorldAddCommand ==
    /\ OutsideRun
    /\ AddedOutside < MaxQueued
    /\ \E chain \in 0..MaxChain :
        command_queue' = World_add_command(command_queue,
                            [system |-> 0, run |-> runs,
                             k |-> AddedOutside + 1, chain |-> chain])
    /\ pc' = <<"idle">>
    /\ UNCHANGED <<technique, systems, sys_state, executed, trace, runs>>
    /\ UNCHANGED not_sched

\* World::flush_commands called from outside a run.
WorldFlushCommands ==
    /\ OutsideRun
    /\ LET flushed == World_flush_commands(command_queue, executed)
       IN  /\ command_queue' = flushed.queue
           /\ executed' = flushed.executed
           /\ trace' = [j \in 1..Len(command_queue) |->
                            Event("queued", command_queue[j].system,
                                  command_queue[j])]
                \o ExecEvents(NewlyExecuted(executed, flushed.executed))
    /\ pc' = <<"flushed">>
    /\ UNCHANGED <<technique, systems, sys_state, runs>>
    /\ UNCHANGED not_sched

\* Systems::run is called.
SystemsRunBegin ==
    /\ OutsideRun
    /\ runs < MaxRuns
    /\ runs' = runs + 1
    /\ pc' = <<"run", 0>>
    /\ trace' = [j \in 1..Len(command_queue) |->
                    Event("queued", command_queue[j].system, command_queue[j])]
    /\ UNCHANGED <<technique, systems, sys_state, command_queue, executed>>
    /\ UNCHANGED not_sched

\* One iteration of the loop of Systems::run: system.run(world), then the
\* flush when the technique is AfterEach.
SystemsRunIteration ==
    /\ pc[1] = "run"
    /\ pc[2] < Len(systems)
    /\ LET index == pc[2] + 1
           r == System_run(systems[index], index, runs, sys_state[index],
                           command_queue)
           flushed == IF technique = "AfterEach" /\ ~r.panicked
                      THEN World_flush_commands(r.queue, executed)
                      ELSE [queue |-> r.queue, executed |-> executed]
       IN  /\ sys_state' = [sys_state EXCEPT ![index] = r.state]
           /\ command_queue' = flushed.queue
           /\ executed' = flushed.executed
           /\ trace' = trace
                \o <<Event("start", index, NoCommand)>>
                \o [j \in 1..Len(r.pushed) |-> Event("push", index, r.pushed[j])]
                \o <<Event(IF r.panicked THEN "error" ELSE "return",
                           index, NoCommand)>>
                \o ExecEvents(NewlyExecuted(executed, flushed.executed))
           /\ pc' = IF r.panicked THEN <<"panicked">> ELSE <<"run", pc[2] + 1>>
    /\ UNCHANGED <<technique, systems, runs>>
    /\ UNCHANGED not_sched

\* After the loop: the flush when the technique is AfterAll; run returns.
SystemsRunEnd ==
    /\ pc = <<"run", Len(systems)>>
    /\ LET flushed == IF technique = "AfterAll"
                      THEN World_flush_commands(command_queue, executed)
                      ELSE [queue |-> command_queue, executed |-> executed]
       IN  /\ command_queue' = flushed.queue
           /\ executed' = flushed.executed
           /\ trace' = trace
                \o ExecEvents(NewlyExecuted(executed, flushed.executed))
                \o <<Event("end", 0, NoCommand)>>
    /\ pc' = <<"returned">>
    /\ UNCHANGED <<technique, systems, sys_state, runs>>
    /\ UNCHANGED not_sched

SchedNext ==
    \/ WorldAddCommand
    \/ WorldFlushCommands
    \/ SystemsRunBegin
    \/ SystemsRunIteration
    \/ SystemsRunEnd

SpecSched == SchedInit /\ [][SchedNext]_vars
(***************************************************************************)
(* SpecParam: one function system over resource and Commands parameters;   *)
(* initialize() and run() are called in any order while resources are      *)
(* inserted and written from outside.  `calls` lists the calls made and,   *)
(* after each, the protocol steps it executed.  A panic ends the run.      *)
(***************************************************************************)
\* The function systems: a tuple of parameters and whether the body
\* returns Err.
ParamShapes ==
    [params : UNION {[1..n -> ParamKinds] : n \in 0..MaxParamLen},
     fails : BOOLEAN]

ParamInit ==
    /\ ColIdle /\ MgrIdle /\ StoreIdle /\ QueryIdle /\ SchedIdle
    /\ EntityIdle /\ RegistryIdle /\ MemoryIdle /\ WorldIdle
    /\ ColumnMemoryIdle
    /\ resources = Resources_new
    /\ fsys \in ParamShapes
    /\ fsys_state = <<>>
    /\ calls = <<>>
    /\ fsys_op = NoSystemCall

\* World::insert_resource called from outside the system.
ParamInsertResource ==
    /\ ~fsys_op.panicked
    /\ \E type \in ResourceTypes, value \in Values :
        resources' = Resources_insert(resources, type, value)
    /\ UNCHANGED <<fsys, fsys_state, calls, fsys_op, command_queue>>
    /\ UNCHANGED not_param

\* World::get_resource_mut called from outside the system, with a write of
\* `value` through the reference returned.
ParamGetResourceMut ==
    /\ ~fsys_op.panicked
    /\ \E type \in ResourceTypes, value \in Values :
        resources' = Resources_get_mut(resources, type, value).data
    /\ UNCHANGED <<fsys, fsys_state, calls, fsys_op, command_queue>>
    /\ UNCHANGED not_param

\* FunctionSystem::initialize.
ParamInitialize ==
    /\ ~fsys_op.panicked
    /\ fsys_op.call < MaxCalls
    /\ LET call == fsys_op.call + 1
           r == FunctionSystem_initialize(fsys, fsys_state, call)
       IN  /\ fsys_state' = r.state
           /\ calls' = calls \o <<Step("initialize", call)>> \o r.steps
           /\ fsys_op' = [op |-> "initialize", call |-> call,
                          data |-> resources, data_after |-> resources,
                          received |-> <<>>, body_ran |-> FALSE,
                          panicked |-> FALSE]
    /\ UNCHANGED <<resources, fsys, command_queue>>
    /\ UNCHANGED not_param

\* FunctionSystem::run.
ParamRun ==
    /\ ~fsys_op.panicked
    /\ fsys_op.call < MaxCalls
    /\ LET call == fsys_op.call + 1
           r == FunctionSystem_run_tuple(fsys, fsys_state, resources,
                                         command_queue, call)
       IN  /\ fsys_state' = r.state
           /\ resources' = r.resources
           /\ command_queue' = r.queue
           /\ calls' = calls \o <<Step("run", call)>> \o r.steps
           /\ fsys_op' = [op |-> "run", call |-> call,
                          data |-> resources, data_after |-> r.resources,
                          received |-> r.received, body_ran |-> r.body_ran,
                          panicked |-> r.panicked]
    /\ UNCHANGED fsys
    /\ UNCHANGED not_param

ParamNext ==
    \/ ParamInsertResource
    \/ ParamGetResourceMut
    \/ ParamInitialize
    \/ ParamRun

SpecParam == ParamInit /\ [][ParamNext]_vars
(***************************************************************************)
(* SpecRegistry: a ComponentRegistry on which register is called for any   *)
(* type, any number of times.                                              *)
(***************************************************************************)
RegistryInit ==
    /\ ColIdle /\ MgrIdle /\ StoreIdle /\ QueryIdle /\ SchedIdle
    /\ EntityIdle /\ ParamIdle /\ MemoryIdle /\ WorldIdle
    /\ ColumnMemoryIdle
    /\ registry = ComponentRegistry_default
    /\ registry_prev = ComponentRegistry_default
    /\ registry_op = [op |-> "new", type_id |-> 0, id |-> 0]

\* ComponentRegistry::register::<T>() for any T.
RegistryRegister ==
    /\ \E type_id \in RegistryTypes :
        LET r == ComponentRegistry_register(registry, type_id)
        IN  /\ registry' = r.registry
            /\ registry_op' = [op |-> "register", type_id |-> type_id,
                               id |-> r.id]
    /\ registry_prev' = registry
    /\ UNCHANGED not_registry

RegistryNext == RegistryRegister

SpecRegistry == RegistryInit /\ [][RegistryNext]_vars
(***************************************************************************)
(* SpecEntity: an EntityManager on which spawn is called repeatedly.       *)
(* Observation begins at a manager that has already handed out the indices *)
(* 0 .. em_first - 1: either a new one, or one within EntityWindow spawns  *)
(* of the end of the u32 range.                                            *)
(***************************************************************************)
EntityStarts ==
    {U32_ZERO} \cup {<<LimbMax, low>> : low \in (LimbMax - EntityWindow)..LimbMax}

EntityInit ==
    /\ ColIdle /\ MgrIdle /\ StoreIdle /\ QueryIdle /\ SchedIdle
    /\ RegistryIdle /\ ParamIdle /\ MemoryIdle /\ WorldIdle
    /\ ColumnMemoryIdle
    /\ \E first \in EntityStarts :
        /\ em = [next_index |-> first]
        /\ em_first = first
    /\ em_returned = <<>>
    /\ em_op = [op |-> "new", index |-> U32_ZERO, panicked |-> FALSE]

\* EntityManager::spawn.  The handle is built from next_index, then the
\* counter is incremented; a panic in the increment ends the run before
\* the handle is returned.
EntitySpawn ==
    /\ ~em_op.panicked
    /\ Len(em_returned) < MaxSpawns
    /\ \E overflow_checks \in BOOLEAN :
        LET entity == EntityManager_spawn(em.next_index)
            r == EntityManager_increment(em.next_index, overflow_checks)
        IN  /\ em' = [next_index |-> r.next_index]
            /\ em_returned' = IF r.panicked THEN em_returned
                              ELSE Append(em_returned, entity)
            /\ em_op' = [op |-> "spawn", index |-> entity,
                         panicked |-> r.panicked]
    /\ UNCHANGED em_first
    /\ UNCHANGED not_entity

EntityNext == EntitySpawn

SpecEntity == EntityInit /\ [][EntityNext]_vars
(***************************************************************************)
(* SpecMemory: one thread that creates and drops RegionGuards, calls       *)
(* functions annotated with memory_region, and allocates and frees blocks  *)
(* through the global allocator, in any order.  A guard record carries,    *)
(* next to the guard's own field `previous`, the region it was made for    *)
(* and the region that was current just before it was made.                *)
(***************************************************************************)
MemoryInit ==
    /\ ColIdle /\ MgrIdle /\ StoreIdle /\ QueryIdle /\ SchedIdle
    /\ EntityIdle /\ RegistryIdle /\ ParamIdle /\ WorldIdle
    /\ ColumnMemoryIdle
    /\ MemoryIdle

MemBefore == [current_region |-> current_region, allocator |-> allocator]

\* The shared part of entering a region.
MemEnter(region, op) ==
    LET r == RegionGuard_new(current_region, region)
    IN  /\ current_region' = r.current
        /\ guards' = Append(guards,
                            [previous |-> r.guard.previous,
                             region |-> region,
                             before |-> get_current_region(current_region)])
        /\ mem_op' = [op |-> op, region |-> region, size |-> 0,
                      call |-> mem_op.call + 1]
        /\ mem_prev' = MemBefore
        /\ UNCHANGED <<guards_lifo, allocator, blocks>>
        /\ UNCHANGED not_memory

\* let guard = RegionGuard::new(region);
MemGuardNew ==
    /\ mem_op.call < MaxMemCalls
    /\ Len(guards) < MaxGuards
    /\ \E region \in Regions : MemEnter(region, "RegionGuard::new")

\* A call of a function annotated #[memory_region(region)]: the expansion
\* opens the body with `let _region_guard = RegionGuard::new(region);`.
MemCallAnnotated ==
    /\ mem_op.call < MaxMemCalls
    /\ Len(guards) < MaxGuards
    /\ \E region \in Regions : MemEnter(region, "memory_region")

\* A guard goes out of scope or is dropped by hand: any guard alive.
MemGuardDrop ==
    /\ mem_op.call < MaxMemCalls
    /\ \E i \in 1..Len(guards) :
        /\ current_region' = RegionGuard_drop(guards[i])
        /\ guards' = SubSeq(guards, 1, i - 1) \o SubSeq(guards, i + 1, Len(guards))
        /\ guards_lifo' = (guards_lifo /\ i = Len(guards))
        /\ mem_op' = [op |-> "drop", region |-> guards[i].region, size |-> 0,
                      call |-> mem_op.call + 1,
                      before |-> guards[i].before]
    /\ mem_prev' = MemBefore
    /\ UNCHANGED <<allocator, blocks>>
    /\ UNCHANGED not_memory

\* ALLOCATOR.alloc(layout) for a layout of any size within the bound.
MemAlloc ==
    /\ mem_op.call < MaxMemCalls
    /\ Len(blocks) < MaxBlocks
    /\ \E size \in 1..MaxLayoutSize :
        /\ allocator' = TrackedAllocator_alloc(allocator, current_region, size)
        /\ blocks' = Append(blocks, size)
        /\ mem_op' = [op |-> "alloc", region |-> current_region, size |-> size,
                      call |-> mem_op.call + 1]
    /\ mem_prev' = MemBefore
    /\ UNCHANGED <<current_region, guards, guards_lifo>>
    /\ UNCHANGED not_memory

\* ALLOCATOR.dealloc(ptr, layout) for any block not yet freed.
MemDealloc ==
    /\ mem_op.call < MaxMemCalls
    /\ \E i \in 1..Len(blocks) :
        /\ allocator' = TrackedAllocator_dealloc(allocator, current_region,
                                                 blocks[i])
        /\ blocks' = SubSeq(blocks, 1, i - 1) \o SubSeq(blocks, i + 1, Len(blocks))
        /\ mem_op' = [op |-> "dealloc", region |-> current_region,
                      size |-> blocks[i], call |-> mem_op.call + 1]
    /\ mem_prev' = MemBefore
    /\ UNCHANGED <<current_region, guards, guards_lifo>>
    /\ UNCHANGED not_memory

MemoryNext ==
    MemGuardNew \/ MemCallAnnotated \/ MemGuardDrop \/ MemAlloc \/ MemDealloc

SpecMemory == MemoryInit /\ [][MemoryNext]_vars
(***************************************************************************)
(* SpecWorld: one World.  Systems are added to the schedules, taken out    *)
(* of them and put back, schedules are run, resources are inserted, read,  *)
(* written in place and removed, CreateResource commands are queued and    *)
(* the queue is flushed, in any order.  A panic ends the run.              *)
(***************************************************************************)
\* The functions added as systems, but for their name: the body of one that
\* takes no Commands inserts nothing.
WorldSystemShapes ==
    {shape \in [params : UNION {[1..n -> ParamKinds] : n \in 0..MaxWorldParams},
                fails : BOOLEAN,
                inserts : ResourceTypes] :
        \/ \E j \in 1..Len(shape.params) : shape.params[j].kind = "Commands"
        \/ shape.inserts = 1}

\* resources, command queue and schedules as a call finds them.
WorldBefore ==
    [resources |-> resources, queue |-> command_queue,
     schedule_map |-> schedule_map]

\* The record of a call that returned without running a schedule.
WorldCall(op, label, type, value, ret) ==
    [op |-> op, call |-> world_op.call + 1, label |-> label, type |-> type,
     value |-> value, ret |-> ret, ran |-> <<>>, seen |-> <<>>,
     executed |-> <<>>, panicked |-> ""]

\* A call can be made: no panic has ended the run.
WorldReady ==
    /\ world_op.panicked = ""
    /\ world_op.call < MaxWorldCalls

\* The value last inserted for each type once `commands`, CreateResource
\* commands, have been executed in order.
LastInsertedAfter(last, commands) ==
    LET types == {commands[j].resource.type : j \in 1..Len(commands)}
        final(t) == CHOOSE j \in 1..Len(commands) :
                        /\ commands[j].resource.type = t
                        /\ \A k \in (j + 1)..Len(commands) :
                              commands[k].resource.type # t
    IN  [t \in DOMAIN last \cup types |->
            IF t \in types THEN commands[final(t)].resource.value
            ELSE last[t]]

WorldInit ==
    /\ ColIdle /\ MgrIdle /\ StoreIdle /\ QueryIdle /\ SchedIdle
    /\ EntityIdle /\ RegistryIdle /\ ParamIdle /\ MemoryIdle
    /\ WorldIdle
    /\ ColumnMemoryIdle

\* The registrations without those under `label`.
RECURSIVE NotUnder(_, _)
NotUnder(label, regs) ==
    IF regs = <<>> THEN <<>>
    ELSE (IF Head(regs)[1] = label THEN <<>> ELSE <<Head(regs)>>)
         \o NotUnder(label, Tail(regs))

\* The systems the schedules and the caller hold.
SystemsHeld ==
    Len(registrations) + (IF taken = <<>> THEN 0 ELSE Len(taken[1].systems))

\* World::add_system(label, function): Schedules::add.
WorldAddSystem ==
    /\ WorldReady
    /\ SystemsHeld < MaxScheduled
    /\ \E label \in ScheduleLabels, shape \in WorldSystemShapes :
        LET name == world_op.call + 1
            function == [name |-> name, params |-> shape.params,
                         fails |-> shape.fails, inserts |-> shape.inserts]
        IN  /\ schedule_map' = Schedules_add(schedule_map, label, function)
            /\ registrations' = Append(registrations, <<label, name>>)
            /\ world_op' = WorldCall("add_system", label, 0, 0, <<>>)
    /\ world_prev' = WorldBefore
    /\ UNCHANGED <<resources, command_queue, last_inserted, taken>>
    /\ UNCHANGED not_world

\* Schedules::take_systems(label): the caller holds the systems returned
\* (and drops what it held); they are registered under the label no more.
WorldTakeSystems ==
    /\ WorldReady
    /\ \E label \in ScheduleLabels :
        LET r == Schedules_take_systems(schedule_map, label)
        IN  /\ schedule_map' = r.schedule_map
            /\ taken' = IF r.ret = <<>> THEN taken ELSE r.ret
            /\ registrations' = NotUnder(label, registrations)
            /\ world_op' = WorldCall("take_systems", label, 0, 0, r.ret)
    /\ world_prev' = WorldBefore
    /\ UNCHANGED <<resources, command_queue, last_inserted>>
    /\ UNCHANGED not_world

\* Schedules::put_systems(label, systems) with the systems the caller
\* holds: they are the systems registered under the label from now on, and
\* what the schedule held is dropped; with no such schedule they are
\* dropped themselves.
WorldPutSystems ==
    /\ WorldReady
    /\ taken # <<>>
    /\ \E label \in ScheduleLabels :
        /\ schedule_map' = Schedules_put_systems(schedule_map, label, taken[1])
        /\ registrations' =
              IF label \in DOMAIN schedule_map
              THEN NotUnder(label, registrations)
                   \o [j \in 1..Len(taken[1].systems) |->
                          <<label, taken[1].systems[j].fn.name>>]
              ELSE registrations
        /\ world_op' = WorldCall("put_systems", label, 0, 0, <<>>)
    /\ taken' = <<>>
    /\ world_prev' = WorldBefore
    /\ UNCHANGED <<resources, command_queue, last_inserted>>
    /\ UNCHANGED not_world

\* Schedules::run_schedule(label, world).
WorldRunSchedule ==
    /\ WorldReady
    /\ \E label \in ScheduleLabels, call \in {world_op.call + 1} :
        \E r \in {Schedules_run_schedule(schedule_map, label, resources,
                                         command_queue, call)} :
            /\ schedule_map' = r.schedule_map
            /\ resources' = r.resources
            /\ command_queue' = r.queue
            /\ last_inserted' = LastInsertedAfter(last_inserted, r.executed)
            /\ world_op' = [op |-> "run_schedule", call |-> call,
                            label |-> label, type |-> 0, value |-> 0,
                            ret |-> <<>>, ran |-> r.ran, seen |-> r.seen,
                            executed |-> r.executed, panicked |-> r.panicked]
    /\ world_prev' = WorldBefore
    /\ UNCHANGED <<registrations, taken>>
    /\ UNCHANGED not_world

\* World::insert_resource(value) with a value of type `type`.
WorldInsertResource ==
    /\ WorldReady
    /\ \E type \in ResourceTypes, value \in Values :
        /\ resources' = Resources_insert(resources, type, value)
        /\ last_inserted' = [t \in DOMAIN last_inserted \cup {type} |->
                                IF t = type THEN value ELSE last_inserted[t]]
        /\ world_op' = WorldCall("insert", "", type, value, <<>>)
    /\ world_prev' = WorldBefore
    /\ UNCHANGED <<schedule_map, registrations, taken, command_queue>>
    /\ UNCHANGED not_world

\* World::get_resource::<T>().
WorldGetResource ==
    /\ WorldReady
    /\ \E type \in ResourceTypes :
        world_op' = WorldCall("get", "", type, 0, Resources_get(resources, type))
    /\ world_prev' = WorldBefore
    /\ UNCHANGED <<schedule_map, registrations, taken, resources,
                   command_queue, last_inserted>>
    /\ UNCHANGED not_world

\* World::get_resource_mut::<T>() and a write of `value` through the
\* reference returned (main.rs: get_resource_mut::<Time>().unwrap().seconds
\* += 1.0): the instance is changed in place, nothing is inserted.
WorldGetResourceMut ==
    /\ WorldReady
    /\ \E type \in ResourceTypes, value \in Values :
        LET r == Resources_get_mut(resources, type, value)
        IN  /\ resources' = r.data
            /\ last_inserted' =
                  IF type \in DOMAIN last_inserted
                  THEN [last_inserted EXCEPT ![type] = value]
                  ELSE last_inserted
            /\ world_op' = WorldCall("get_mut", "", type, value, r.ret)
    /\ world_prev' = WorldBefore
    /\ UNCHANGED <<schedule_map, registrations, taken, command_queue>>
    /\ UNCHANGED not_world

\* Resources::remove::<T>().
WorldRemoveResource ==
    /\ WorldReady
    /\ \E type \in ResourceTypes :
        LET r == Resources_remove(resources, type)
        IN  /\ resources' = r.data
            /\ last_inserted' = [t \in DOMAIN last_inserted \ {type} |->
                                    last_inserted[t]]
            /\ world_op' = WorldCall("remove", "", type, 0, r.ret)
    /\ world_prev' = WorldBefore
    /\ UNCHANGED <<schedule_map, registrations, taken, command_queue>>
    /\ UNCHANGED not_world

\* World::add_command(Box::new(CreateResource { resource })).
WorldAddCreateResource ==
    /\ WorldReady
    /\ Len(command_queue) < MaxWorldQueued
    /\ \E type \in ResourceTypes, value \in Values :
        /\ command_queue' = World_add_command(command_queue,
                                CreateResource(type, value, world_op.call + 1,
                                               Len(command_queue) + 1))
        /\ world_op' = WorldCall("add_command", "", type, value, <<>>)
    /\ world_prev' = WorldBefore
    /\ UNCHANGED <<schedule_map, registrations, taken, resources,
                   last_inserted>>
    /\ UNCHANGED not_world

\* World::flush_commands called from outside a run, over a queue of
\* CreateResource commands.
WorldFlushCreateResources ==
    /\ WorldReady
    /\ \E r \in {World_flush(resources, command_queue)} :
        /\ resources' = r.resources
        /\ command_queue' = r.queue
        /\ last_inserted' = LastInsertedAfter(last_inserted, r.executed)
        /\ world_op' = [WorldCall("flush_commands", "", 0, 0, <<>>)
                            EXCEPT !.executed = r.executed]
    /\ world_prev' = WorldBefore
    /\ UNCHANGED <<schedule_map, registrations, taken>>
    /\ UNCHANGED not_world

WorldNext ==
    \/ WorldAddSystem
    \/ WorldTakeSystems
    \/ WorldPutSystems
    \/ WorldRunSchedule
    \/ WorldInsertResource
    \/ WorldGetResource
    \/ WorldGetResourceMut
    \/ WorldRemoveResource
    \/ WorldAddCreateResource
    \/ WorldFlushCreateResources

SpecWorld == WorldInit /\ [][WorldNext]_vars
(***************************************************************************)
(* SpecColumnMemory: one column of elements of mcol_size bytes, zero       *)
(* included, any sequence of push and swap_remove calls; each call records *)
(* the allocator calls it made and the bytes it copied.  An abort ends the *)
(* run.                                                                    *)
(***************************************************************************)
ElementSizes == 0..MaxElementSize

\* The elements of `size` bytes.
Elements(size) == [1..size -> Values]

ColumnMemoryInit ==
    /\ ColIdle /\ MgrIdle /\ StoreIdle /\ QueryIdle /\ SchedIdle
    /\ EntityIdle /\ RegistryIdle /\ ParamIdle /\ MemoryIdle /\ WorldIdle
    /\ mcol_size \in ElementSizes
    /\ \E capacity \in 1..MaxInitCap :
        LET requests == with_capacity_requests(mcol_size, capacity)
        IN  /\ mcol = with_capacity(capacity)
            /\ \E aborted \in requests_abort(requests) :
                mcol_op = [op |-> "with_capacity", arg |-> capacity,
                           length_before |-> 0, requests |-> requests,
                           copied |-> 0, aborted |-> aborted]

\* push of an element of mcol_size bytes.
ColumnMemoryPush ==
    /\ ~mcol_op.aborted
    /\ mcol.length < MaxColLen
    /\ \E value \in Elements(mcol_size) :
        LET requests == push_requests(mcol, mcol_size)
        IN  \E aborted \in requests_abort(requests) :
                /\ mcol' = IF aborted THEN mcol ELSE push(mcol, value)
                /\ mcol_op' = [op |-> "push", arg |-> value,
                               length_before |-> mcol.length,
                               requests |-> requests,
                               copied |-> IF aborted THEN 0
                                          ELSE push_copied(mcol_size),
                               aborted |-> aborted]
    /\ UNCHANGED mcol_size
    /\ UNCHANGED not_mcol

\* swap_remove of a row that passes the assertion.
ColumnMemorySwapRemove ==
    /\ ~mcol_op.aborted
    /\ \E index \in 0..MaxColLen :
        /\ swap_remove_ok(mcol, index)
        /\ mcol' = swap_remove(mcol, index)
        /\ mcol_op' = [op |-> "swap_remove", arg |-> index,
                       length_before |-> mcol.length, requests |-> <<>>,
                       copied |-> swap_remove_copied(mcol, index, mcol_size),
                       aborted |-> FALSE]
    /\ UNCHANGED mcol_size
    /\ UNCHANGED not_mcol

ColumnMemoryNext == ColumnMemoryPush \/ ColumnMemorySwapRemove

SpecColumnMemory == ColumnMemoryInit /\ [][ColumnMemoryNext]_vars
(***************************************************************************)
(* C9: swap_remove(r) on a column of length n with r < n-1 leaves length   *)
(* n-1 with row r holding the bytes previously at row n-1 and every other  *)
(* row below n-1 unchanged; swap_remove(n-1) leaves length n-1 with no     *)
(* remaining row's bytes changed.                                          *)
(***************************************************************************)
C9_SwapRemove ==
    (col_op.op = "swap_remove" /\ ~col_op.panicked) =>
        LET n == col_prev.length
            r == col_op.arg
        IN  /\ col.length = n - 1
            /\ r < n - 1 =>
                /\ bytes_at(col, r) = bytes_at(col_prev, n - 1)
                /\ \A i \in 0..(n - 2) :
                      i # r => bytes_at(col, i) = bytes_at(col_prev, i)
            /\ r = n - 1 =>
                \A i \in 0..(n - 2) : bytes_at(col, i) = bytes_at(col_prev, i)

\* A swap_remove of a row below the last one, whose bytes differed from the
\* last row's, on a column of at least three rows.
C9_Witness ==
    /\ col_op.op = "swap_remove" /\ ~col_op.panicked
    /\ col_prev.length >= 3
    /\ col_op.arg < col_prev.length - 1
    /\ bytes_at(col_prev, col_op.arg) # bytes_at(col_prev, col_prev.length - 1)
    /\ bytes_at(col, col_op.arg) = bytes_at(col_prev, col_prev.length - 1)


(***************************************************************************)
(* C21: after any sequence of push and swap_remove calls on a column,      *)
(* capacity in elements is at least the length; capacity changes only in a *)
(* push performed when length equals capacity, where it doubles; a push    *)
(* stores the new element at index length and leaves the bytes of all      *)
(* earlier rows unchanged, also across a growth.                           *)
(***************************************************************************)
C21_CapacityAndPush ==
    /\ col.capacity >= col.length
    /\ col.capacity # col_prev.capacity =>
          /\ col_op.op = "push"
          /\ col_prev.length = col_prev.capacity
    /\ col_op.op = "push" =>
          LET n == col_prev.length
          IN  /\ col.capacity = IF n = col_prev.capacity
                                THEN 2 * col_prev.capacity
                                ELSE col_prev.capacity
              /\ col.length = n + 1
              /\ bytes_at(col, n) = col_op.arg
              /\ \A i \in 0..(n - 1) : bytes_at(col, i) = bytes_at(col_prev, i)

\* A push that grew a full column of at least two rows holding different
\* bytes: the capacity doubled and both earlier rows are still there.
C21_Witness ==
    /\ col_op.op = "push"
    /\ col_prev.length = col_prev.capacity
    /\ col_prev.length >= 2
    /\ bytes_at(col_prev, 0) # bytes_at(col_prev, 1)
    /\ col.capacity = 2 * col_prev.capacity
    /\ bytes_at(col, 0) = bytes_at(col_prev, 0)
    /\ bytes_at(col, 1) = bytes_at(col_prev, 1)
    /\ bytes_at(col, col_prev.length) = col_op.arg

(***************************************************************************)
(* C22: requesting the address of a row whose index is not below the       *)
(* column's current length (through ptr_at / get_component_ptr, or         *)
(* swap_remove) always ends in a fatal assertion; it never returns a       *)
(* pointer.                                                                *)
(***************************************************************************)
C22_RowPastLengthIsFatal ==
    (col_op.op \in {"ptr_at", "swap_remove"} /\ col_op.arg >= col_prev.length) =>
        col_op.panicked

\* C39: pushing to a column whose element size is zero increases the
\* logical length by one and copies no bytes; creating, growing and
\* swap-removing such a column never requests or touches backing memory and
\* never fails.
C39_ZeroSizedColumnNeedsNoMemory ==
    mcol_size = 0 =>
        /\ mcol_op.requests = <<>>
        /\ mcol_op.copied = 0
        /\ ~mcol_op.aborted
        /\ mcol_op.op = "push" => mcol.length = mcol_op.length_before + 1
(***************************************************************************)
(* C7: removing the entity at row r of an archetype whose last row holds a *)
(* different entity d relocates d to row r (its entity-list entry and its  *)
(* component bytes) and records EntityLocation(d).row = r; the removed     *)
(* entity has no EntityLocation any more and is in no entity list; when    *)
(* the removed entity was in the last row no other entity's row or         *)
(* location changes.                                                       *)
(***************************************************************************)
C7_RemoveRelocatesLast ==
    (mgr_op.op = "remove_entity" /\ mgr_op.entity \in DOMAIN mgr_prev.entity_locations) =>
        LET e == mgr_op.entity
            s == mgr_prev.entity_locations[e][1]
            r == mgr_prev.entity_locations[e][2]
            before == mgr_prev.archetypes[s]
            after == archetypes[s]
            n == Len(before.entities)
            d == before.entities[n]
        IN  /\ e \notin DOMAIN entity_locations
            /\ \A t \in DOMAIN archetypes : e \notin Range(archetypes[t].entities)
            /\ d # e =>
                /\ after.entities[r + 1] = d
                /\ entity_locations[d] = <<s, r>>
                /\ \A j \in 1..Len(after.columns) :
                      bytes_at(after.columns[j], r) = bytes_at(before.columns[j], n - 1)
            /\ r = n - 1 =>
                /\ \A x \in DOMAIN mgr_prev.entity_locations \ {e} :
                      entity_locations[x] = mgr_prev.entity_locations[x]
                /\ after.entities = SubSeq(before.entities, 1, n - 1)
                /\ \A t \in DOMAIN archetypes \ {s} :
                      archetypes[t] = mgr_prev.archetypes[t]

\* The removed entity sat in row 0 of an archetype of three rows, so the
\* entity of the last row was relocated to row 0.
C7_Witness ==
    /\ mgr_op.op = "remove_entity"
    /\ mgr_op.entity \in DOMAIN mgr_prev.entity_locations
    /\ LET s == mgr_prev.entity_locations[mgr_op.entity][1]
           r == mgr_prev.entity_locations[mgr_op.entity][2]
           before == mgr_prev.archetypes[s]
       IN  /\ r = 0
           /\ Len(before.entities) = 3
           /\ Len(before.columns) = 2
           /\ entity_locations[before.entities[3]] = <<s, 0>>
           /\ mgr_prev.entity_locations[before.entities[3]] = <<s, 2>>

(***************************************************************************)
(* C8: in every reachable state of an archetype every column has the same  *)
(* logical length, the length of the archetype's entity list.              *)
(***************************************************************************)
C8_ColumnLengths ==
    \A s \in DOMAIN archetypes :
        LET a == archetypes[s]
        IN  /\ Len(a.columns) = Len(a.types)
            /\ \A j \in 1..Len(a.columns) :
                  a.columns[j].length = Len(a.entities)

(***************************************************************************)
(* C32: inserting an entity into an archetype stores each component's      *)
(* bytes in the column of that component's ComponentId, whatever the order *)
(* of the (pointer, ComponentId) pairs in the call, and appends the entity *)
(* at the same row index in the entity list.                               *)
(***************************************************************************)
C32_BytesInColumnOfTheirId ==
    (mgr_op.op = "insert" /\ ~mgr_op.panicked) =>
        LET e == mgr_op.entity
            s == entity_locations[e][1]
            row == entity_locations[e][2]
        IN  /\ archetypes[s].entities[row + 1] = e
            /\ \A j \in 1..Len(mgr_op.components) :
                  Archetype_get_component(archetypes[s],
                                          mgr_op.components[j][1], row)
                      = {mgr_op.components[j][2]}
(***************************************************************************)
(* Claims about the archetype graph.                                       *)
(***************************************************************************)
\* No ComponentId twice in the list.
NoDuplicates(s) == \A i, j \in 1..Len(s) : s[i] = s[j] => i = j

\* C10: get_or_create_archetype returns the same ArchetypeId for every call
\* whose component list is a permutation of the same set of ComponentIds,
\* whatever calls happened in between, and different ids for different
\* sets: of any earlier call and the last call, both with duplicate-free
\* lists, the ids are equal exactly when the lists hold the same set.
C10_SameSetSameId ==
    (store_op.op = "get_or_create_archetype" /\ goc_kept.valid) =>
        LET earlier == goc_kept.components
            later == store_op.args.components
        IN  (NoDuplicates(earlier) /\ NoDuplicates(later)) =>
                ((Range(earlier) = Range(later))
                    <=> (goc_kept.id = store_op.ret.id))

\* An earlier call asked for <<1, 0>>, other archetypes were created since,
\* and the last call asks for <<0, 1>> and gets the same id.
C10_Witness ==
    /\ store_op.op = "get_or_create_archetype"
    /\ goc_kept.valid
    /\ goc_kept.components = <<1, 0>>
    /\ store_op.args.components = <<0, 1>>
    /\ goc_kept.id = store_op.ret.id
    /\ store_prev.graph = store.graph
    /\ \E id \in 0..(Len(store.graph.signatures) - 1) :
          /\ id > goc_kept.id
          /\ ~NoDuplicates(store.graph.signatures[id + 1])

\* The archetypes one add-component edge away from the archetypes of S.
AddEdgeTargets(g, S) ==
    {g.add_component_edges[k] :
        k \in {e \in DOMAIN g.add_component_edges : e[1] \in S}}

\* The archetypes a chain of add-component edges reaches from those of S.
RECURSIVE ReachableByAddEdges(_, _)
ReachableByAddEdges(g, S) ==
    LET T == S \cup AddEdgeTargets(g, S)
    IN  IF T = S THEN S ELSE ReachableByAddEdges(g, T)

\* How many times component c stands in signature s.
Occurrences(s, c) == Cardinality({i \in 1..Len(s) : s[i] = c})

\* The add edge keyed e leads to a signature with one more e[2] and
\* otherwise the same components.
AddsOneComponent(g, e) ==
    LET from == g.signatures[e[1] + 1]
        to == g.signatures[g.add_component_edges[e] + 1]
    IN  \A c \in ComponentIds :
            Occurrences(to, c) =
                Occurrences(from, c) + (IF c = e[2] THEN 1 ELSE 0)

\* C11: after any sequence of get_or_create_archetype calls, every archetype
\* known to the graph is reachable from the archetype with the empty
\* signature by following add-component edges, and every add-component
\* edge adds exactly one component.
C11_ReachableFromEmpty ==
    Len(store.graph.signatures) > 0 =>
        /\ <<>> \in DOMAIN store.graph.by_signature
        /\ \A e \in DOMAIN store.graph.add_component_edges :
              /\ e[1] < Len(store.graph.signatures)
              /\ store.graph.add_component_edges[e]
                    < Len(store.graph.signatures)
              /\ AddsOneComponent(store.graph, e)
        /\ 0..(Len(store.graph.signatures) - 1) =
              ReachableByAddEdges(store.graph,
                                  {store.graph.by_signature[<<>>]})

\* Several calls have built a graph that holds a signature of two different
\* components and one with a repeated component, each two edges away from
\* the empty archetype.
C11_Witness ==
    /\ store_op.op = "get_or_create_archetype"
    /\ store_prev.graph # store.graph
    /\ <<0, 1>> \in DOMAIN store.graph.by_signature
    /\ <<1, 1>> \in DOMAIN store.graph.by_signature
    /\ <<>> \in DOMAIN store.graph.by_signature
    /\ store.graph.by_signature[<<>>] # 0
    /\ store.graph.by_signature[<<0, 1>>] \in
          ReachableByAddEdges(store.graph, {store.graph.by_signature[<<>>]})

\* The sorted signature s with component c inserted in sorted position.
InsertedSorted(s, c) == Sort(Append(s, c))

\* C28: add and remove edges of the archetype graph are consistent and
\* mutually inverse: there is an add edge (s, c) -> t exactly when there is
\* a remove edge (t, c) -> s, and for every such edge the signature of t is
\* the signature of s with c inserted in sorted position.
C28_EdgesMutuallyInverse ==
    LET g == store.graph
        add == g.add_component_edges
        remove == g.remove_component_edges
    IN  /\ \A key \in DOMAIN add :
              LET s == key[1]
                  c == key[2]
                  t == add[key]
              IN  /\ <<t, c>> \in DOMAIN remove
                  /\ remove[<<t, c>>] = s
                  /\ get_signature(g, s) # <<>>
                  /\ get_signature(g, t) # <<>>
                  /\ get_signature(g, t)[1] =
                        InsertedSorted(get_signature(g, s)[1], c)
        /\ \A key \in DOMAIN remove :
              LET t == key[1]
                  c == key[2]
                  s == remove[key]
              IN  /\ <<s, c>> \in DOMAIN add
                  /\ add[<<s, c>>] = t

\* The graph holds a two-component archetype reached from two different
\* one-component archetypes, each by an add edge with its remove edge
\* back.
C28_Witness ==
    LET g == store.graph
    IN  \E t \in 0..(Len(g.signatures) - 1) :
            /\ Len(g.signatures[t + 1]) = 2
            /\ g.signatures[t + 1][1] # g.signatures[t + 1][2]
            /\ \E s1, s2 \in 0..(Len(g.signatures) - 1) :
                  /\ s1 # s2
                  /\ get_add_edge(g, s1, g.signatures[t + 1][1]) = <<t>>
                  /\ get_add_edge(g, s2, g.signatures[t + 1][2]) = <<t>>
                  /\ g.remove_component_edges[<<t, g.signatures[t + 1][1]>>] = s1
                  /\ g.remove_component_edges[<<t, g.signatures[t + 1][2]>>] = s2
(***************************************************************************)
(* Claims about the World's store.                                         *)
(***************************************************************************)
\* The entities found in the entity lists of the store.
LiveEntities(a) ==
    UNION {Range(a.storage[i].entities) : i \in 1..Len(a.storage)}

\* C1: after any sequence of spawn and move_entity calls, every live entity
\* has a recorded EntityLocation (archetype, row), and the entity list of
\* that archetype holds the entity at that row.
C1_LocationPointsAtEntity ==
    \A e \in LiveEntities(store) :
        /\ e \in DOMAIN recorded
        /\ recorded[e].archetype_id < Len(store.storage)
        /\ recorded[e].row <
              Len(store.storage[recorded[e].archetype_id + 1].entities)
        /\ store.storage[recorded[e].archetype_id + 1]
              .entities[recorded[e].row + 1] = e

\* The last call was move_entity with a target other than the source.
MovedElsewhere ==
    /\ store_op.op = "move_entity"
    /\ store_op.args.target_id # store_op.args.location.archetype_id

\* C5: move_entity(e, location, target) with target different from the
\* source archetype copies, for every component present in both the source
\* and the target signature, the bytes of e's source row into e's new row:
\* reading that component at the returned location gives the value the
\* source row held before the move.
C5_SharedBytesPreserved ==
    (MovedElsewhere /\ ~store_op.panicked) =>
        LET location == store_op.args.location
            new_location == store_op.ret.new_location
            source == store_prev.storage[location.archetype_id + 1]
            target == store.storage[new_location.archetype_id + 1]
            source_signature ==
                get_signature(store.graph, location.archetype_id)[1]
            target_signature ==
                get_signature(store.graph, store_op.args.target_id)[1]
        IN  \A component_id \in
                    Range(source_signature) \cap Range(target_signature) :
                has_component(source, component_id) =>
                    /\ has_component(target, component_id)
                    /\ bytes_at(target.columns[component_id], new_location.row)
                         = bytes_at(source.columns[component_id], location.row)

\* C6: after a move_entity(e, location, target) with target different from
\* the source archetype has returned, e occupies the returned row of the
\* target archetype and no row of the source archetype; the source is one
\* entity shorter and the target one longer than before; all other
\* archetypes are unchanged.
C6_MoveEffects ==
    (MovedElsewhere /\ ~store_op.panicked) =>
        LET e == store_op.args.entity
            source_id == store_op.args.location.archetype_id
            target_id == store_op.args.target_id
            new_location == store_op.ret.new_location
        IN  /\ new_location.archetype_id = target_id
            /\ Len(store.storage) = Len(store_prev.storage)
            /\ new_location.row < Len(store.storage[target_id + 1].entities)
            /\ store.storage[target_id + 1].entities[new_location.row + 1] = e
            /\ e \notin Range(store.storage[source_id + 1].entities)
            /\ Len(store.storage[source_id + 1].entities)
                 = Len(store_prev.storage[source_id + 1].entities) - 1
            /\ Len(store.storage[target_id + 1].entities)
                 = Len(store_prev.storage[target_id + 1].entities) + 1
            /\ \A id \in 0..(Len(store.storage) - 1) :
                  id \notin {source_id, target_id} =>
                      store.storage[id + 1] = store_prev.storage[id + 1]

\* The only entity of {A} was moved to {A, B}, which held an entity
\* already: {A} is left with length 0 and the entity is in row 1 of {A, B}.
C6_Witness ==
    /\ MovedElsewhere
    /\ ~store_op.panicked
    /\ get_signature(store.graph, store_op.args.location.archetype_id) = <<<<0>>>>
    /\ get_signature(store.graph, store_op.args.target_id) = <<<<0, 1>>>>
    /\ Len(store.storage[store_op.args.location.archetype_id + 1].entities) = 0
    /\ store_op.ret.new_location.row = 1
    /\ store.storage[store_op.args.target_id + 1].entities[2]
          = store_op.args.entity

\* C12: once get_add_edge(from, c) has returned Some(t) it returns Some(t)
\* with the same t after any later graph or store operation: every add edge
\* of the graph before the last operation is an add edge of the graph after
\* it, with the same target.
C12_EdgesNeverChange ==
    \A from \in 0..(Len(store_prev.graph.signatures) - 1) :
        \A c \in ComponentIds :
            get_add_edge(store_prev.graph, from, c) # <<>> =>
                get_add_edge(store.graph, from, c) =
                    get_add_edge(store_prev.graph, from, c)

\* The graph had add edges, and the last operation, a spawn with the
\* component list in a new order or an add-component lookup, added
\* archetypes and edges to it.
C12_Witness ==
    /\ store_op.op \in {"spawn", "get_add_component_destination"}
    /\ DOMAIN store_prev.graph.add_component_edges # {}
    /\ Len(store.graph.signatures) > Len(store_prev.graph.signatures)
    /\ \E e \in DOMAIN store.graph.add_component_edges :
          /\ e \notin DOMAIN store_prev.graph.add_component_edges
          /\ e[1] < Len(store_prev.graph.signatures)

\* C23: move_entity called with a target archetype id equal to the entity's
\* current archetype id is a fatal contract violation: it aborts before any
\* archetype is modified and never holds two mutable accesses to the same
\* archetype; for two different ids the two accesses designate the source
\* and the target archetype respectively, whichever id is larger.
C23_MoveToSameArchetypeIsFatal ==
    store_op.op = "move_entity" =>
        LET source_id == store_op.args.location.archetype_id
            target_id == store_op.args.target_id
            split == move_entity_split(source_id, target_id)
        IN  /\ source_id = target_id =>
                  /\ store_op.panicked
                  /\ store = store_prev
            /\ ~store_op.panicked =>
                  /\ split.source # split.target
                  /\ split = [source |-> source_id, target |-> target_id]
                  /\ store.storage[target_id + 1].entities =
                        Append(store_prev.storage[target_id + 1].entities,
                               store_op.args.entity)
                  /\ store_op.args.entity \notin
                        Range(store.storage[source_id + 1].entities)

\* move_entity was called for an entity with its own archetype as the
\* target, an archetype that has storage and holds the entity: the call
\* panicked and the store is as before.
C23_Witness ==
    /\ store_op.op = "move_entity"
    /\ store_op.args.target_id = store_op.args.location.archetype_id
    /\ store_op.args.target_id < Len(store.storage)
    /\ store_op.args.entity \in
          Range(store.storage[store_op.args.target_id + 1].entities)
    /\ store_op.panicked
    /\ store = store_prev

\* The ArchetypeId the last call returned, as <<id>>; <<>> when the call
\* returns none.
ReturnedArchetypeId ==
    IF store_op.panicked THEN <<>>
    ELSE IF store_op.op = "spawn" THEN <<store_op.ret.archetype_id>>
    ELSE IF store_op.op = "get_add_component_destination"
         THEN <<store_op.ret.id>>
         ELSE <<>>

\* Archetypes::get(id) is Some(archetype) with archetype.id() = id.
HasBackingStorage(a, id) ==
    /\ id < Len(a.storage)
    /\ a.storage[id + 1].id = id

\* C26: every ArchetypeId returned by get_or_create_for_bundle or
\* get_add_component_destination, after any sequence of such calls,
\* designates an archetype that has backing storage whose own id() equals
\* that ArchetypeId; sub-archetypes created recursively by the graph and
\* later requested are backed by a real archetype, not by a placeholder.
C26_ReturnedIdHasStorage ==
    \A j \in 1..Len(ReturnedArchetypeId) :
        HasBackingStorage(store, ReturnedArchetypeId[j])

\* s is sorted and holds no ComponentId twice.
StrictlyIncreasing(s) ==
    \A i \in 1..(Len(s) - 1) : s[i] < s[i + 1]

\* C27: every signature stored in the archetype graph is strictly
\* increasing (sorted, no ComponentId twice), after any sequence of
\* get_or_create_for_bundle and get_add_component_destination calls,
\* including a bundle that names the same component type twice and an add
\* of a component the source archetype already has.
C27_SignaturesStrictlyIncreasing ==
    \A id \in 1..Len(store.graph.signatures) :
        StrictlyIncreasing(store.graph.signatures[id])

\* C29: for a component c not in the signature of archetype from,
\* get_add_component_destination(from, c) returns the archetype whose
\* signature is exactly the signature of from plus c, returns the same id
\* on every later call, and after the first call the add edge (from, c) is
\* cached in the graph.  Later calls: an edge cached before the last
\* operation is cached after it with the same target, and a call finds it.
C29_AddDestination ==
    /\ (store_op.op = "get_add_component_destination" /\ ~store_op.panicked) =>
          LET from == store_op.args.start_id
              c == store_op.args.component_id
              id == store_op.ret.id
              signature == get_signature(store_prev.graph, from)[1]
          IN  c \notin Range(signature) =>
                  /\ get_signature(store.graph, id) =
                        <<InsertedSorted(signature, c)>>
                  /\ get_add_edge(store.graph, from, c) = <<id>>
                  /\ get_add_edge(store_prev.graph, from, c) # <<>> =>
                        get_add_edge(store_prev.graph, from, c) = <<id>>
    /\ \A from \in 0..(Len(store.graph.signatures) - 1) :
          \A c \in ComponentIds \ Range(store.graph.signatures[from + 1]) :
              /\ (from < Len(store_prev.graph.signatures)
                    /\ get_add_edge(store_prev.graph, from, c) # <<>>) =>
                    get_add_edge(store.graph, from, c) =
                        get_add_edge(store_prev.graph, from, c)
              /\ get_add_edge(store.graph, from, c) # <<>> =>
                    get_add_component_destination(store, from, c) =
                        [archetypes |-> store,
                         id |-> get_add_edge(store.graph, from, c)[1]]

\* The first get_add_component_destination(from, c) for a one-component
\* archetype and a smaller component id created the two-component
\* archetype and cached the edge.
C29_Witness ==
    /\ store_op.op = "get_add_component_destination"
    /\ ~store_op.panicked
    /\ get_signature(store_prev.graph, store_op.args.start_id) = <<<<1>>>>
    /\ store_op.args.component_id = 0
    /\ get_add_edge(store_prev.graph, store_op.args.start_id, 0) = <<>>
    /\ store_op.ret.id = Len(store_prev.graph.signatures)
    /\ get_signature(store.graph, store_op.ret.id) = <<<<0, 1>>>>
    /\ get_add_edge(store.graph, store_op.args.start_id, 0) = <<store_op.ret.id>>

\* The rows of the store that hold entity e, as <<archetype index, row>>.
RowsHolding(a, e) ==
    {<<i, r>> \in (1..Len(a.storage)) \X (1..MaxEntities) :
        /\ r <= Len(a.storage[i].entities)
        /\ a.storage[i].entities[r] = e}

\* C30: each live entity occupies exactly one row of exactly one archetype
\* and has exactly one EntityLocation record; an entity that was never
\* spawned or has been removed has no record; so the set of entities with
\* a location equals the set of entities found in the archetypes' entity
\* lists after any sequence of spawn and move operations.
C30_OneRowOneRecord ==
    /\ \A e \in LiveEntities(store) :
          Cardinality(RowsHolding(store, e)) = 1
    /\ DOMAIN recorded = LiveEntities(store)

\* C31: move_entity returns Some(d) exactly when the moved entity's source
\* row was not the last row of the source archetype, and then d is the
\* entity that now occupies that source row; it returns None when the moved
\* entity was in the last row; the returned location names the target
\* archetype and the row just appended there.
C31_MoveReturnsDisplaced ==
    (store_op.op = "move_entity" /\ ~store_op.panicked) =>
        LET source_id == store_op.args.location.archetype_id
            target_id == store_op.args.target_id
            row == store_op.args.location.row
            last == Len(store_prev.storage[source_id + 1].entities) - 1
            moved == store_op.ret.moved_entity_in_source
            new_location == store_op.ret.new_location
        IN  /\ (moved # <<>>) <=> (row < last)
            /\ row < last =>
                  /\ moved = <<store.storage[source_id + 1].entities[row + 1]>>
                  /\ moved = <<store_prev.storage[source_id + 1].entities[last + 1]>>
                  /\ moved # <<store_op.args.entity>>
            /\ new_location =
                  [archetype_id |-> target_id,
                   row |-> Len(store_prev.storage[target_id + 1].entities)]
            /\ store.storage[target_id + 1].entities[new_location.row + 1] =
                  store_op.args.entity
            /\ new_location.row = Len(store.storage[target_id + 1].entities) - 1

\* The entity of row 0 of an archetype of two rows was moved to an
\* archetype that already held an entity: the other entity of the source
\* is returned and now sits in row 0; the new row is row 1 of the target.
C31_Witness ==
    /\ store_op.op = "move_entity"
    /\ ~store_op.panicked
    /\ store_op.args.location.row = 0
    /\ Len(store_prev.storage[store_op.args.location.archetype_id + 1].entities) = 2
    /\ store_op.ret.moved_entity_in_source =
          <<store.storage[store_op.args.location.archetype_id + 1].entities[1]>>
    /\ store_op.ret.new_location.row = 1
(***************************************************************************)
(* Claims about the query.                                                 *)
(***************************************************************************)
\* The ids of the component types the query names.
RequiredIds == {get_id(infos, q_types[j])[1] : j \in 1..Len(q_types)}

\* <<archetype id, row>> of every row of the stored archetypes from id on
\* whose signature holds every required id, in store order and row order.
RECURSIVE RowsOfSupersets(_)
RowsOfSupersets(id) ==
    IF id >= Len(store.storage) THEN <<>>
    ELSE LET signature == get_signature(store.graph, id)[1]
             rows == IF RequiredIds \subseteq Range(signature)
                     THEN [r \in 1..Len(store.storage[id + 1].entities) |->
                              <<id, r - 1>>]
                     ELSE <<>>
         IN  rows \o RowsOfSupersets(id + 1)

\* C4: when the system's query is iterated it yields exactly one item per
\* row of every archetype currently in the store whose signature is a
\* superset of the queried components, archetypes created after the
\* QueryState was built included, and nothing else, in archetype store
\* order and row order (so zero items when no archetype qualifies).
C4_QueryYieldsSupersetRows ==
    store_op.op = "run_system" =>
        /\ ~store_op.panicked
        /\ [j \in 1..Len(store_op.ret.items) |->
               <<store_op.ret.items[j].archetype_id, store_op.ret.items[j].row>>]
             = RowsOfSupersets(0)

\* Two elements of the access list name the same component and at least one
\* of them is mutable.
AccessConflicts(access) ==
    \E j, k \in 1..Len(access) :
        /\ j # k
        /\ access[j][1] = access[k][1]
        /\ access[j][2] \/ access[k][2]

\* The references an item of the last run holds: element j points at
\* (component of element j, archetype, row), mutably when element j is &mut.
ItemReferences(item) ==
    LET access == get_access(infos, q_types, q_mut).access
    IN  [j \in 1..Len(access) |->
            [component_id |-> access[j][1], mutable |-> access[j][2],
             archetype_id |-> item.archetype_id, row |-> item.row]]

\* C13: a query whose element tuple requests mutable access to a component
\* that another element of the tuple also accesses is rejected before the
\* system body runs, and no system body runs holding two aliases of the same
\* mutable component column: the body of the query system has run only if
\* its access list has no conflict, and no item it was handed holds two
\* references to the same component of the same row, one of them mutable.
C13_ConflictingAccessRejected ==
    store_op.op = "run_system" =>
        /\ ~AccessConflicts(get_access(infos, q_types, q_mut).access)
        /\ \A i \in 1..Len(store_op.ret.items) :
              LET refs == ItemReferences(store_op.ret.items[i])
              IN  \A j, k \in 1..Len(refs) :
                      (j # k /\ refs[j].component_id = refs[k].component_id)
                          => (~refs[j].mutable /\ ~refs[k].mutable)

\* <<archetype id, row>> of the rows of the archetypes the ids of `list`
\* resolve to, from position j on, in list order and row order.
RECURSIVE RowsOfList(_, _)
RowsOfList(list, j) ==
    IF j > Len(list) THEN <<>>
    ELSE LET found == Archetypes_get(store, list[j])
             rows == IF found = <<>> THEN <<>>
                     ELSE [r \in 1..Len(found[1].entities) |-> <<list[j], r - 1>>]
         IN  rows \o RowsOfList(list, j + 1)

\* The iterator as the call of next() that returned None (or panicked) left
\* it.
RECURSIVE Exhausted(_, _)
Exhausted(state, it) ==
    LET r == QueryIter_next(store, infos, q_types, state, it)
    IN  IF r.panicked \/ r.item = <<>> THEN r
        ELSE Exhausted(state, r.it)

\* C33: on a store that is not mutated during iteration, QueryIter yields,
\* for each archetype of the query's matching list in list order, rows
\* 0..len-1 in order and each exactly once; archetypes with zero rows
\* contribute no item and do not stop or fail the iteration; after the last
\* row next() returns None, and every later call returns None again.
C33_IterationWalksMatchingList ==
    store_op.op = "run_system" =>
        LET state == q_state[1]
            last == Exhausted(state, into_iter)
            again == QueryIter_next(store, infos, q_types, state, last.it)
        IN  /\ ~store_op.panicked
            /\ [j \in 1..Len(store_op.ret.items) |->
                   <<store_op.ret.items[j].archetype_id,
                     store_op.ret.items[j].row>>]
                 = RowsOfList(state.matching_archetypes, 1)
            /\ ~last.panicked /\ last.item = <<>>
            /\ ~again.panicked /\ again.item = <<>> /\ again.it = last.it

\* C34: every ArchetypeId stored in a QueryState's matching list resolves to
\* an archetype of the store when the query is iterated, for every query
\* shape including one that requires no component (Query<Entity>): QueryIter
\* never fails with 'Archetype not found'.
C34_MatchingIdsResolve ==
    store_op.op = "run_system" =>
        /\ ~store_op.panicked
        /\ \A j \in 1..Len(q_state[1].matching_archetypes) :
              Archetypes_get(store, q_state[1].matching_archetypes[j]) # <<>>
(***************************************************************************)
(* Claims about commands and the schedule.                                 *)
(***************************************************************************)
\* The commands the systems pushed during the current run.
PushedThisRun ==
    {trace[p].command : p \in {q \in 1..Len(trace) : trace[q].kind = "push"}}

\* How often `command` was executed against the world.
TimesExecuted(command) ==
    Cardinality({p \in 1..Len(executed) : executed[p] = command})

\* C2: after every system of the schedule has run and Systems::run has
\* returned, every command a system pushed through its Commands parameter
\* during that run has been executed against the world exactly once, and
\* every per-system buffer and the world's command queue are empty, for
\* systems of one, two or three parameters.
C2_CommandsExecutedOnce ==
    pc = <<"returned">> =>
        /\ \A command \in PushedThisRun : TimesExecuted(command) = 1
        /\ \A j \in 1..Len(sys_state) :
              sys_state[j] # <<>> => sys_state[j][1] = <<>>
        /\ command_queue = <<>>

\* The positions of the trace where system `index` starts and returns.
StartOf(index) ==
    {p \in 1..Len(trace) : trace[p].kind = "start" /\ trace[p].system = index}

ReturnOf(index) ==
    {p \in 1..Len(trace) : trace[p].kind = "return" /\ trace[p].system = index}

\* The positions where `command` executes.
ExecOf(command) ==
    {p \in 1..Len(trace) : trace[p].kind = "exec" /\ trace[p].command = command}

\* The positions where the system after `index` starts, or the run returns
\* when `index` is the last system.
NextStartOf(index) ==
    IF index < Len(systems) THEN StartOf(index + 1)
    ELSE {p \in 1..Len(trace) : trace[p].kind = "end"}

\* C3: no command pushed by a system executes while that system's body is
\* running; under AfterAll no command a system pushed executes before the
\* last system of the schedule has returned; under AfterEach the commands
\* of system i execute after system i returns and before system i+1
\* starts (before the run returns, for the last system).
C3_CommandsExecuteBetweenSystems ==
    \A command \in PushedThisRun :
        /\ \A e \in ExecOf(command) :
              /\ \A r \in ReturnOf(command.system) : r < e
              /\ technique = "AfterAll" =>
                    \A r \in ReturnOf(Len(systems)) : r < e
              /\ technique = "AfterAll" => ReturnOf(Len(systems)) # {}
        /\ (technique = "AfterEach" /\ NextStartOf(command.system) # {}) =>
              \E e \in ExecOf(command) :
                  /\ \A r \in ReturnOf(command.system) : r < e
                  /\ \A s \in NextStartOf(command.system) : e < s

\* The commands the events of the trace from position p on handed to a
\* buffer or to the queue, in that order: the commands found queued when
\* the run began, the pushes of the systems, and the commands queued by the
\* execute of a command.
RECURSIVE EnqueuedFrom(_)
EnqueuedFrom(p) ==
    IF p > Len(trace) THEN <<>>
    ELSE (IF trace[p].kind \in {"queued", "push"}
          THEN <<trace[p].command>>
          ELSE IF trace[p].kind = "exec"
          THEN Command_execute(trace[p].command)
          ELSE <<>>)
         \o EnqueuedFrom(p + 1)

\* The commands the trace from position p on executed, in that order.
RECURSIVE ExecutedFrom(_)
ExecutedFrom(p) ==
    IF p > Len(trace) THEN <<>>
    ELSE (IF trace[p].kind = "exec" THEN <<trace[p].command>> ELSE <<>>)
         \o ExecutedFrom(p + 1)

\* C14: commands are executed in the order they were pushed, within one
\* system in push order, across systems in system run order, and commands
\* queued while the queue is flushed after every command queued before
\* them: when Systems::run has returned, the commands it executed are the
\* commands that were queued or pushed, in the order of their queueing.
C14_CommandsExecuteInPushOrder ==
    pc = <<"returned">> => ExecutedFrom(1) = EnqueuedFrom(1)

\* The systems the trace from position p on started, in that order.
RECURSIVE StartedFrom(_)
StartedFrom(p) ==
    IF p > Len(trace) THEN <<>>
    ELSE (IF trace[p].kind = "start" THEN <<trace[p].system>> ELSE <<>>)
         \o StartedFrom(p + 1)

\* The call of Systems::run is over: it returned, or a panic unwound it.
RunIsOver == pc \in {<<"returned">>, <<"panicked">>}

\* C15: Systems::run executes every registered system exactly once per
\* call, in the order in which the systems were added: when a call is over,
\* the systems it started are the first, the second, .. the last, once each.
C15_EverySystemOncePerCall ==
    RunIsOver => StartedFrom(1) = [j \in 1..Len(systems) |-> j]

\* The positions of the trace where the body of a system returned an error.
Errors == {p \in 1..Len(trace) : trace[p].kind = "error"}

\* C17: when a system's fallible body returns an error, that system halts
\* and the error is reported with the system's identity, the system's
\* parameter state remains initialized, and the schedule run continues: the
\* remaining systems of the schedule still run and the command queue is
\* still flushed.  For every error of the trace, the system named is one
\* whose body fails, it started no second time, its state is initialized,
\* and when the call is over every later system has started and the queue
\* is empty.
C17_ErrorDoesNotStopTheSchedule ==
    \A p \in Errors :
        LET index == trace[p].system
        IN  /\ systems[index].fails
            /\ Cardinality(StartOf(index)) = 1
            /\ sys_state[index] # <<>>
            /\ RunIsOver =>
                  /\ \A later \in (index + 1)..Len(systems) :
                        \E s \in StartOf(later) : s > p
                  /\ command_queue = <<>>

\* A call of World::flush_commands has returned: one of the current
\* Systems::run, or one made from outside a run.
FlushReturned ==
    \/ pc = <<"returned">>
    \/ technique = "AfterEach" /\ pc[1] = "run" /\ pc[2] >= 1
    \/ pc = <<"flushed">>

\* The commands that were in the world's queue when the run began, and so
\* when its first flush was called, or when the flush from outside a run was
\* called.
QueuedAtCall ==
    {trace[p].command : p \in {q \in 1..Len(trace) : trace[q].kind = "queued"}}

\* The commands the commands executed during the run handed to
\* World::add_command.
EnqueuedByExecuted ==
    UNION {Range(Command_execute(trace[p].command)) :
              p \in {q \in 1..Len(trace) : trace[q].kind = "exec"}}

\* C36: when World::flush_commands returns, the world's command queue is
\* empty, and every command that was queued at the call or enqueued by a
\* command executed during the call has been executed exactly once; the
\* call terminates whenever the executed commands enqueue only finitely
\* many further commands.
C36_FlushDrainsTheQueue ==
    FlushReturned =>
        /\ command_queue = <<>>
        /\ \A command \in QueuedAtCall \cup EnqueuedByExecuted :
              TimesExecuted(command) = 1

\* A flush has returned that found a command queued whose execute queued a
\* further command; both were executed, the second after the first.
C36_Witness ==
    /\ FlushReturned
    /\ \E p, q \in 1..Len(trace) :
          /\ p < q
          /\ trace[p].kind = "exec" /\ trace[q].kind = "exec"
          /\ trace[p].command \in QueuedAtCall
          /\ trace[p].command.chain > 0
          /\ <<trace[q].command>> = Command_execute(trace[p].command)
(***************************************************************************)
(* Claims about the SystemParam protocol and resources.                    *)
(***************************************************************************)
\* The positions of `calls` that hold `step`, of any call.
StepsOf(step) == {p \in 1..Len(calls) : calls[p].step = step}

\* The positions of `calls` that hold `step` of call number `call`.
StepsOfCall(step, call) == {p \in StepsOf(step) : calls[p].call = call}

\* C16: across any sequence of initialize() and run() calls on a function
\* system, the parameter's init_state executes exactly once, before the
\* first get_param; get_param executes exactly once per run(), before the
\* body; apply_buffers executes once per run(), after the body.
C16_ProtocolStepsOncePerRun ==
    /\ Cardinality(StepsOf("init_state")) =
          (IF StepsOf("initialize") \cup StepsOf("run") = {} THEN 0 ELSE 1)
    /\ \A g \in StepsOf("get_param") : \E i \in StepsOf("init_state") : i < g
    /\ \A r \in StepsOf("run") :
          LET call == calls[r].call
          IN  /\ Cardinality(StepsOfCall("get_param", call)) = 1
              /\ Cardinality(StepsOfCall("body", call)) <= 1
              /\ \A b \in StepsOfCall("body", call) :
                    /\ \A g \in StepsOfCall("get_param", call) : g < b
                    /\ Cardinality(StepsOfCall("apply_buffers", call)) = 1
                    /\ \A a \in StepsOfCall("apply_buffers", call) : b < a
    /\ \A i \in StepsOf("initialize") :
          /\ StepsOfCall("get_param", calls[i].call) = {}
          /\ StepsOfCall("body", calls[i].call) = {}
          /\ StepsOfCall("apply_buffers", calls[i].call) = {}

\* Some Res<T> of the tuple names a type that has no resource in `data`.
MissingRes(params, data) ==
    \E j \in 1..Len(params) :
        params[j].kind = "Res" /\ params[j].type \notin DOMAIN data

\* C18: fetching a non-optional Res<T> when no resource of type T exists is
\* fatal and the system body does not run; fetching Option<Res<T>> in the
\* same state yields None, the body runs and the resource map is unchanged;
\* when T exists both forms give access to the stored value.
C18_MissingResource ==
    fsys_op.op = "run" =>
        LET params == fsys.params
            data == fsys_op.data
        IN  /\ fsys_op.data_after = data
            /\ MissingRes(params, data) =>
                  fsys_op.panicked /\ ~fsys_op.body_ran
            /\ ~MissingRes(params, data) =>
                  /\ fsys_op.body_ran
                  /\ Len(fsys_op.received) = Len(params)
                  /\ \A j \in 1..Len(params) :
                        params[j].kind \in {"Res", "OptionRes"} =>
                            IF params[j].type \in DOMAIN data
                            THEN fsys_op.received[j] =
                                    [present |-> TRUE,
                                     value |-> data[params[j].type]]
                            ELSE fsys_op.received[j] = NoItem

\* The system takes (Option<Res<T1>>, Res<T2>); it ran while T1 had no
\* resource and T2 had one, after an earlier run: the body ran and was
\* handed None and the stored value of T2.
C18_Witness ==
    /\ fsys_op.op = "run"
    /\ fsys_op.call > 1
    /\ fsys.params = <<[kind |-> "OptionRes", type |-> 1],
                       [kind |-> "Res", type |-> 2]>>
    /\ DOMAIN fsys_op.data = {2}
    /\ fsys_op.body_ran
    /\ fsys_op.received[1] = NoItem
    /\ fsys_op.received[2] = [present |-> TRUE, value |-> fsys_op.data[2]]
    /\ resources = fsys_op.data
(***************************************************************************)
(* Claims about the component registry.                                    *)
(***************************************************************************)
\* The types get_id knows in registry r.
KnownTypes(r) ==
    {t \in RegistryTypes : ComponentRegistry_get_id(r, t) # <<>>}

\* C19: register is idempotent and assigns dense ids in first-seen order:
\* the k-th distinct type registered gets id k-1, registering a type again
\* returns its existing id and leaves the registry unchanged, distinct
\* types never share an id, get_id returns Some(id) exactly for registered
\* types, and get_info(id).id = id for every assigned id.
C19_RegisterIdempotentDense ==
    /\ registry_op.op = "new" => KnownTypes(registry) = {}
    /\ registry_op.op = "register" =>
          LET t == registry_op.type_id
              id == registry_op.id
          IN  /\ IF t \in KnownTypes(registry_prev)
                 THEN /\ <<id>> = ComponentRegistry_get_id(registry_prev, t)
                      /\ registry = registry_prev
                 ELSE id = Cardinality(KnownTypes(registry_prev))
              /\ ComponentRegistry_get_id(registry, t) = <<id>>
              /\ \A other \in RegistryTypes \ {t} :
                    ComponentRegistry_get_id(registry, other) =
                        ComponentRegistry_get_id(registry_prev, other)
    /\ \A t1, t2 \in KnownTypes(registry) :
          ComponentRegistry_get_id(registry, t1) =
              ComponentRegistry_get_id(registry, t2) => t1 = t2
    /\ \A t \in KnownTypes(registry) :
          LET id == ComponentRegistry_get_id(registry, t)[1]
              info == ComponentRegistry_get_info(registry, id)
          IN  /\ id \in 0..(Cardinality(KnownTypes(registry)) - 1)
              /\ info # <<>>
              /\ info[1].id = id
              /\ info[1].type_id = t
    /\ ComponentRegistry_get_info(registry,
                                  Cardinality(KnownTypes(registry))) = <<>>

\* Three types were registered, type 3 first, and the last call registered
\* again the type that had come second: it got id 1 back and nothing
\* changed.
C19_Witness ==
    /\ registry_op.op = "register"
    /\ Cardinality(KnownTypes(registry_prev)) = 3
    /\ ComponentRegistry_get_id(registry_prev, 3) = <<0>>
    /\ registry_op.type_id # 3
    /\ registry_op.id = 1
    /\ registry = registry_prev
(***************************************************************************)
(* Claims about the entity manager.                                        *)
(***************************************************************************)
\* C20: every call to EntityManager::spawn returns a handle whose index is
\* strictly greater than every index returned before, so no index is ever
\* reused, for any number of spawns with the 32-bit counter.  The indices
\* returned before observation began are those below em_first.
C20_IndicesStrictlyIncrease ==
    \A j \in 1..Len(em_returned) :
        /\ ~U32_less(em_returned[j], em_first)
        /\ \A i \in 1..(j - 1) : U32_less(em_returned[i], em_returned[j])
(***************************************************************************)
(* Claims about the memory regions.                                        *)
(***************************************************************************)
\* A guard for region R is active: guards were dropped youngest first and
\* the youngest guard alive was made for R.
GuardActiveFor(region) ==
    /\ guards # <<>>
    /\ guards_lifo
    /\ guards[Len(guards)].region = region

\* C24: an allocation performed while a RegionGuard for region R is active,
\* directly or inside a function annotated with memory_region(R), increases
\* R's allocation count by exactly one and leaves the counts of the other
\* regions unchanged.
C24_AllocationCountedInRegion ==
    \A R \in Regions :
        (mem_op.op = "alloc" /\ GuardActiveFor(R)) =>
            /\ get_count(mem_prev.allocator, R) # USIZE_MAX
            /\ get_count(allocator, R) =
                  usize_wrapping_inc(get_count(mem_prev.allocator, R))
            /\ \A other \in Regions \ {R} :
                  get_count(allocator, other) =
                      get_count(mem_prev.allocator, other)

\* C25: RegionGuard::new(R) makes R the current region, and leaving the
\* scope restores the region that was current before: for any nesting of
\* guards dropped in reverse order of creation, get_current_region after
\* each drop equals its value just before the matching creation, and it is
\* General when no guard is alive.
C25_GuardRestoresPrevious ==
    /\ mem_op.op \in {"RegionGuard::new", "memory_region"} =>
          get_current_region(current_region) = mem_op.region
    /\ guards_lifo =>
          /\ mem_op.op = "drop" =>
                get_current_region(current_region) = mem_op.before
          /\ guards = <<>> =>
                get_current_region(current_region) = "General"

\* Two nested guards for different regions, the inner one just dropped in
\* reverse order: the outer guard's region is current again.
C25_Witness ==
    /\ mem_op.op = "drop"
    /\ guards_lifo
    /\ Len(guards) = 1
    /\ guards[1].region # "General"
    /\ mem_op.region # guards[1].region
    /\ mem_prev.current_region = mem_op.region
    /\ get_current_region(current_region) = guards[1].region
(***************************************************************************)
(* Claims about the World: resources, schedules and commands together.     *)
(***************************************************************************)
\* The resources of every type but those of `types` are as the last call
\* found them.
OtherTypesUntouched(types) ==
    \A t \in ResourceTypes \ types :
        Resources_get(resources, t) = Resources_get(world_prev.resources, t)

\* The types of the resources the commands carry.
TypesCreated(commands) ==
    {commands[j].resource.type : j \in 1..Len(commands)}

\* C37: the resource map holds at most one instance per resource type:
\* inserting a resource of type T (directly or by executing a
\* CreateResource command) when one exists replaces it, get returns the
\* most recently inserted value, remove returns that value and leaves T
\* absent, and none of these operations changes resources of other types.
\* A write through get_mut changes the instance last inserted in place: it
\* stays the one instance of its type, and get returns it as written.
C37_OneInstancePerType ==
    /\ \A t \in ResourceTypes :
          Resources_get(resources, t) =
              (IF t \in DOMAIN last_inserted THEN <<last_inserted[t]>>
               ELSE <<>>)
    /\ world_op.op = "insert" =>
          /\ Resources_get(resources, world_op.type) = <<world_op.value>>
          /\ OtherTypesUntouched({world_op.type})
    /\ world_op.op = "get" =>
          /\ world_op.ret =
                (IF world_op.type \in DOMAIN last_inserted
                 THEN <<last_inserted[world_op.type]>> ELSE <<>>)
          /\ OtherTypesUntouched({})
    /\ world_op.op = "remove" =>
          /\ world_op.ret = Resources_get(world_prev.resources, world_op.type)
          /\ Resources_get(resources, world_op.type) = <<>>
          /\ OtherTypesUntouched({world_op.type})
    /\ world_op.op = "get_mut" =>
          /\ world_op.ret = Resources_get(world_prev.resources, world_op.type)
          /\ Resources_get(resources, world_op.type) =
                (IF world_op.ret = <<>> THEN <<>> ELSE <<world_op.value>>)
          /\ OtherTypesUntouched({world_op.type})
    /\ world_op.op \in {"run_schedule", "flush_commands"} =>
          /\ \A j \in 1..Len(world_op.executed) :
                LET created == world_op.executed[j].resource
                IN  (\A k \in (j + 1)..Len(world_op.executed) :
                        world_op.executed[k].resource.type # created.type)
                    => Resources_get(resources, created.type)
                          = <<created.value>>
          /\ OtherTypesUntouched(TypesCreated(world_op.executed))

\* A flush executed two CreateResource commands of one type with
\* different values; the map holds the value of the second.
C37_Witness ==
    /\ world_op.op = "run_schedule"
    /\ Len(world_op.executed) = 2
    /\ world_op.executed[1].resource.type = world_op.executed[2].resource.type
    /\ world_op.executed[1].resource.value # world_op.executed[2].resource.value
    /\ Resources_get(resources, world_op.executed[2].resource.type)
          = <<world_op.executed[2].resource.value>>

\* The function takes a parameter of this kind and resource type.
TakesParam(function, kind, type) ==
    \E j \in 1..Len(function.params) :
        function.params[j] = [kind |-> kind, type |-> type]

\* The systems of the schedule the last call named, as the call found them.
ScheduleCalled ==
    IF world_op.label \in DOMAIN world_prev.schedule_map
    THEN world_prev.schedule_map[world_op.label].systems
    ELSE Systems_default

\* C35: in a schedule with the default configuration, a resource inserted
\* through Commands by one system is present in the world when a later
\* system of the same schedule run fetches it as Res<T> (the pattern the
\* renderer's initialization systems rely on: create_instance inserts the
\* instance, create_surface reads it).  For every run of a schedule and
\* every two systems of it, the earlier one taking Commands and its body
\* having inserted a resource of type T through it, the later one taking
\* Res<T> and having been started: the resources the later one found hold T.
C35_InsertedResourceSeenByLaterSystem ==
    (world_op.op = "run_schedule"
        /\ ScheduleCalled.command_flush_technique = "AfterAll") =>
        \A i, j \in 1..Len(ScheduleCalled.systems) :
            LET earlier == ScheduleCalled.systems[i].fn
                later == ScheduleCalled.systems[j].fn
            IN  (/\ i < j
                 /\ TakesParam(earlier, "Commands", 0)
                 /\ \E p \in 1..Len(world_op.ran) : world_op.ran[p] = earlier.name
                 /\ TakesParam(later, "Res", earlier.inserts)
                 /\ j <= Len(world_op.seen))
                => earlier.inserts \in DOMAIN world_op.seen[j]

\* The names of the functions registered under `label` (added to it, or
\* put into it by put_systems, and not taken out since), in the order of
\* their registration.
RECURSIVE RegisteredUnder(_, _)
RegisteredUnder(label, j) ==
    IF j > Len(registrations) THEN <<>>
    ELSE (IF registrations[j][1] = label THEN <<registrations[j][2]>>
          ELSE <<>>)
         \o RegisteredUnder(label, j + 1)

\* C38: a system registered under any of the three schedule labels
\* (Initialization, Main, Destroy) is run by a later run_schedule of that
\* label and by no run_schedule of another label, although only
\* Initialization and Main schedules exist initially; run_schedule of a
\* label with no schedule runs nothing and changes nothing.  A run that a
\* missing resource ended, which is fatal, is left aside.  The systems
\* take_systems took out of a schedule are registered under its label no
\* more; the systems put_systems puts into a schedule are.
C38_SystemsRunUnderTheirLabel ==
    (world_op.op = "run_schedule"
        /\ world_op.panicked # "resource not found") =>
        /\ world_op.ran = RegisteredUnder(world_op.label, 1)
        /\ world_op.label \notin DOMAIN world_prev.schedule_map =>
              /\ world_op.ran = <<>>
              /\ resources = world_prev.resources
              /\ command_queue = world_prev.queue
              /\ schedule_map = world_prev.schedule_map
====
